---------------------------- MODULE Spec2Model ----------------------------
(***************************************************************************)
(* A model of the MedCo service of the cothority repository: the ring      *)
(* protocols (Deterministic, Key and Probabilistic Switching), the tree    *)
(* protocol (Private Aggregation), the survey store and the service        *)
(* pipeline that composes them on a results query.                         *)
(*                                                                         *)
(* The prime-order group is modelled as the additive group of integers     *)
(* modulo GroupOrder with base point B = 1; a scalar times a point is the  *)
(* product modulo GroupOrder.                                              *)
(***************************************************************************)
EXTENDS Integers, Sequences, FiniteSets, TLC

\* ------------------------------------------------------------- bounds
\* Number of servers of the roster.
N == 4
\* Order of the group the ciphertexts live in.
GroupOrder == 5
\* Bounds on the target of a switch: its rows, and the length of a row.
MaxRows == 2
MaxLen == 1
\* Rows the clients submit to a survey.
MaxSubmits == 2
\* Times a ciphertext is re-randomized.
MaxRerandomizations == 3
\* Results queries handled in a run of the service with repeated queries.
MaxQueries == 2

Nodes == 0 .. (N - 1)

\* mcs.entityList: the roster of the survey is the servers 0 .. rosterLen - 1.
VARIABLE rosterLen
Roster == 0 .. (rosterLen - 1)

\* ------------------------------------------------------------- group
Points == 0 .. (GroupOrder - 1)
Base == 1
Identity == 0
Mul(a, P) == (a * P) % GroupOrder
PAdd(P, R) == (P + R) % GroupOrder
PSub(P, R) == (P - R + GroupOrder * GroupOrder) % GroupOrder

\* Each server's long-term private scalar (p.Private()) and public key.
Private(i) == (2 * i + 1) % GroupOrder
Public(i) == Mul(Private(i), Base)

RECURSIVE SumOver(_, _)
SumOver(S, f) ==
  IF S = {} THEN 0
  ELSE LET x == CHOOSE y \in S : TRUE
       IN (f[x] + SumOver(S \ {x}, f)) % GroupOrder

CollectiveSecret == SumOver(Roster, [i \in Roster |-> Private(i)])
\* el.Aggregate: the sum of the servers' public keys.
Aggregate == SumOver(Roster, [i \in Roster |-> Public(i)])

\* The querier's key pair.
QuerierSecret == 3 % GroupOrder
QuerierPublic == Mul(QuerierSecret, Base)

\* Scalars a server or a client may draw.
Rands == {1, 2}

\* ------------------------------------------------------------- ciphertexts
CT(k, c) == [K |-> k, C |-> c]
Encrypt(Y, m, k) == CT(Mul(k, Base), PAdd(Mul(m, Base), Mul(k, Y)))
Decrypt(s, ct) == PSub(ct.C, Mul(s, ct.K))
CTAdd(a, b) == CT(PAdd(a.K, b.K), PAdd(a.C, b.C))

\* A re-randomization that adds r*B to both components.
Rerandomize_BaseOnly(Y, ct, r) == CT(PAdd(ct.K, Mul(r, Base)), PAdd(ct.C, Mul(r, Base)))

\* Rerandomize(Y, ct, r): (K + r*B, C + r*Y).
Rerandomize(Y, ct, r) == CT(PAdd(ct.K, Mul(r, Base)), PAdd(ct.C, Mul(r, Y)))

Min(a, b) == IF a < b THEN a ELSE b

\* CipherVector.Add(cv1, cv2): the component-wise sum, written into the receiver.
CVAdd(cv1, cv2) == [i \in 1 .. Min(Len(cv1), Len(cv2)) |-> CTAdd(cv1[i], cv2[i])]

DecryptVector(s, cv) == [i \in 1 .. Len(cv) |-> Decrypt(s, cv[i])]

\* The zero value of a CipherVector (a nil slice), and a map without entries.
NilVector == <<>>
EmptyMap == <<>>

\* A *map[...]...: nil, or a reference to a map.
NilRef == [nil |-> TRUE, m |-> EmptyMap]
Ref(m) == [nil |-> FALSE, m |-> m]
\* A *abstract.Point: nil, or a reference to a key.
NilKey == [nil |-> TRUE, key |-> Identity]
KeyRef(Y) == [nil |-> FALSE, key |-> Y]

SeqToSet(q) == {q[i] : i \in 1 .. Len(q)}

\* The elements of a finite set, in some fixed order.
RECURSIVE SetToSeq(_)
SetToSeq(S) ==
  IF S = {} THEN <<>>
  ELSE LET x == CHOOSE y \in S : TRUE IN <<x>> \o SetToSeq(S \ {x})

\* ------------------------------------------------------------- tree and ring
\* mcs.entityList.GenerateBinaryTree(): a binary tree rooted at roster[0].
Root == 0
Parent(n) == (n - 1) \div 2
Children(n) == {c \in Roster : c /= Root /\ Parent(c) = n}
IsRoot(n) == n = Root
IsLeaf(n) == Children(n) = {}

\* A successor that skips a server.
NextNodeInCircuit_Skip(i) == (i + 2) % rosterLen

\* nextNodeInCircuit = nodeList[(i+1) % len(nodeList)]
NextNodeInCircuit(i) == (i + 1) % rosterLen

\* ------------------------------------------------------------- state
VARIABLES
  created,           \* the server has handled the survey creation query
  creationNet,       \* servers a forwarded creation query is in flight to
  surveyPHKey,       \* mcs.surveyPHKey of each server: its per-survey scalar
  grpLen,            \* number of grouping attributes of the survey's rows
  submitted,         \* the rows the clients submitted, in plaintext, in order
  qpc,               \* HandleSurveyResultsQuery: where the handler waits
  qGroups,           \* flushAggregatedData: aggregatedGroups
  qAttrs,            \* flushAggregatedData: keySwitchedAggregatedAttributes
  response,          \* the SurveyResultResponse returned to the querier
  rerandomized,      \* a ciphertext being re-randomized, with its key and plaintext
  coordinator,       \* the server that handles the results query, if any
  aborted,           \* the survey has been aborted
  queries,           \* number of results queries handled so far
  lateRows,          \* the submitted rows that arrived while a results query was under way
  panicked           \* the server's process died of a run-time panic

\* ------------------------------------------------------------- CoSi state
VARIABLES
  cosiMessage,         \* pc.message of the root: the message to sign, or nil
  cosiCallback,        \* a DoneCallback has been registered at the root
  cosiStarted,         \* Start has been called on the root's instance
  cosiNet,             \* the CoSi messages in flight
  tempCommitment,      \* pc.tempCommitment: the senders of the buffered commitments
  tempResponse,        \* pc.tempResponse: the senders of the buffered responses
  commitSent,          \* commitments the node has sent to its parent
  responseSent,        \* responses the node has sent to its parent
  challengeStarted,    \* runs of StartChallenge that sent the challenge down
  cosiErr,             \* the last error the node's listen loop has logged
  doneCalls,           \* invocations of DoneCallback
  nodeDone             \* calls of pc.Node.Done()

cosiVars == <<cosiMessage, cosiCallback, cosiStarted, cosiNet, tempCommitment, tempResponse,
              commitSent, responseSent, challengeStarted, cosiErr, doneCalls, nodeDone>>

\* No CoSi round has been started.
CosiIdle ==
  /\ cosiMessage = "nil"
  /\ cosiCallback = FALSE
  /\ cosiStarted = FALSE
  /\ cosiNet = {}
  /\ tempCommitment = [n \in Nodes |-> <<>>]
  /\ tempResponse = [n \in Nodes |-> <<>>]
  /\ commitSent = [n \in Nodes |-> 0]
  /\ responseSent = [n \in Nodes |-> 0]
  /\ challengeStarted = 0
  /\ cosiErr = [n \in Nodes |-> "nil"]
  /\ doneCalls = 0
  /\ nodeDone = 0

\* ------------------------------------------------------------- rounds state
\* RoundSetup calls that may be under way at once on one node.
MaxCalls == 2
\* Largest round number an announcement carries.
MaxRound == 2
Calls == 1 .. MaxCalls

VARIABLES
  LastSeenRound,       \* sn.LastSeenRound
  RoundTypes,          \* sn.RoundTypes: element i + 1 is the type of round i
  Rounds,              \* sn.Rounds: the rounds installed, by round number
  ChangingView,        \* sn.ChangingView
  snIsRoot,            \* sn.IsRoot(view)
  RoundsAsRoot,        \* sn.RoundsAsRoot
  Round,               \* sn.Round
  callPc,              \* where each RoundSetup call stands
  callAm,              \* the AnnouncementMessage of each call
  callResult,          \* the error each call returned
  mapFault             \* the runtime ended the process on concurrent map writes

roundVars == <<LastSeenRound, RoundTypes, Rounds, ChangingView, snIsRoot, RoundsAsRoot, Round,
               callPc, callAm, callResult, mapFault>>

\* am.Vote == nil
NoVote == [Type |-> 0, Vcv |-> FALSE, nil |-> TRUE]
NoAnnouncement == [RoundNbr |-> 0, Vote |-> NoVote]

\* No RoundSetup call has been made on the node.
RoundsIdle ==
  /\ LastSeenRound = 0
  /\ RoundTypes = <<>>
  /\ Rounds = <<>>
  /\ ChangingView = FALSE
  /\ snIsRoot = FALSE
  /\ RoundsAsRoot = 0
  /\ Round = 0
  /\ callPc = [c \in Calls |-> "idle"]
  /\ callAm = [c \in Calls |-> NoAnnouncement]
  /\ callResult = [c \in Calls |-> "none"]
  /\ mapFault = FALSE

svcVars == <<queries, lateRows, rosterLen, cosiVars, roundVars, rerandomized, coordinator, aborted, created, creationNet, surveyPHKey, grpLen, submitted, qpc, qGroups,
             qAttrs, response>>

VARIABLES
  collected,           \* store: client responses not yet polled
  polled,              \* store: polled rows, by row ID, awaiting their label
  locallyAggregated,   \* store: aggregates by deterministic label
  cothorityAggregated, \* store: the groups aggregated over the cothority
  deliverable,         \* store: results under the querier's key
  rowIdsIssued,        \* store: number of row IDs handed out so far
  pushedLabels         \* store: the maps given to PushDeterministicGroupingAttributes

storeVars == <<collected, polled, locallyAggregated, cothorityAggregated,
               deliverable, rowIdsIssued, pushedLabels>>

VARIABLES
  aggPc,             \* Private Aggregation: position of each server's Dispatch
  aggDataRef,        \* PrivateAggregateProtocol.DataReference of each instance
  aggRefChan,        \* DataReferenceChannel: announcements waiting at a server
  aggChildChan,      \* ChildDataChannel: children's messages arrived at a server
  aggNet,            \* Private Aggregation messages in flight
  aggStarted,        \* the root's Start has run
  aggFeedback,       \* what the root sent on FeedbackChannel, in order
  aggSent,           \* number of ChildAggregatedData messages a server sent
  aggFolded,         \* the children whose maps a server folded, in fold order
  aggAnnounced,      \* how many announcements a server has read from its DataReferenceChannel
  aggInput,          \* the contribution each instance was created with
  aggStartErr        \* what the root's Start returned: "pending", "nil", "error"

aggVars == <<aggPc, aggDataRef, aggRefChan, aggChildChan,
             aggNet, aggStarted, aggFeedback, aggSent, aggFolded, aggAnnounced, aggInput,
             aggStartErr>>

VARIABLES
  ringKind,          \* the ring protocol of the running instance: "DS", "KS", "PS"
  ringPc,            \* ring protocol: position of each server's Dispatch
  ringTarget,        \* TargetOfSwitch of the initiator's instance
  ringTargetKey,     \* TargetPublicKey of the initiator's instance
  ringChan,          \* PreviousNodeInPathChannel of each server
  ringNet,           \* ring messages in flight
  ringStarted,       \* the initiator's Start has run
  ringData,          \* the Data of the message a server's Dispatch transformed
  ringFeedback,      \* what the initiator sent on FeedbackChannel, in order
  ringVisits,        \* the servers that applied their transform, in order
  ringRand,          \* what random.Stream yields at each server in this instance
  ringStartErr,      \* what the initiator's Start returned: "pending", "nil", "error"
  ringDispatchErr,   \* what each server's Dispatch returned
  ringSendFailed     \* the servers whose SendTo returned an error

ringVars == <<ringKind, ringPc, ringTarget, ringTargetKey, ringChan, ringNet,
              ringStarted, ringData, ringFeedback, ringVisits, ringRand,
              ringStartErr, ringDispatchErr, ringSendFailed>>

vars == <<svcVars, storeVars, aggVars, ringVars, panicked>>

\* A server without contribution that reports a group of its own.
LocalContribution_MarkerGroup(ref) ==
  IF ref.nil THEN [g \in {<<0>>} |-> <<>>] ELSE ref.m

\* if localContribution == nil: an empty map takes its place.
LocalContribution(ref) == IF ref.nil THEN EmptyMap ELSE ref.m

\* ------------------------------------------------------------- survey store
MapPut(m, k, v) == [x \in (DOMAIN m) \cup {k} |-> IF x = k THEN v ELSE m[x]]
Without(m, S) == [x \in (DOMAIN m) \ S |-> m[x]]

\* A client response: the grouping attributes and the aggregating attributes.
Row(grp, agg) == [grp |-> grp, agg |-> agg]

\* PollProbabilisticGroupingAttributes: the collected rows get fresh row IDs.
PolledRows(n) ==
  [id \in (rowIdsIssued[n] + 1) .. (rowIdsIssued[n] + Len(collected[n])) |->
     collected[n][id - rowIdsIssued[n]]]
ProbabilisticGroupingAttributes(rows) == [id \in DOMAIN rows |-> rows[id].grp]

\* A store in which a row replaces the entry of its label.
AddToGroup_Overwrite(local, label, vec) == MapPut(local, label, vec)

\* The aggregates of a row added to its label's entry, or inserted.
AddToGroup(local, label, vec) ==
  IF label \in DOMAIN local
    THEN MapPut(local, label, CVAdd(local[label], vec))
    ELSE MapPut(local, label, vec)

\* PushDeterministicGroupingAttributes: the polled rows named by ids are
\* joined to their labels and summed by label.
RECURSIVE GroupRows(_, _, _, _)
GroupRows(local, ids, rows, labels) ==
  IF ids = <<>> THEN local
  ELSE GroupRows(AddToGroup(local, labels[Head(ids)], rows[Head(ids)].agg),
                 Tail(ids), rows, labels)

JoinedIds(rows, labels) == (DOMAIN rows) \cap (DOMAIN labels)

\* The locally aggregated map of server n after labels have been pushed.
GroupedByLabel(n, labels) ==
  GroupRows(LocalContribution(locallyAggregated[n]),
            SetToSeq(JoinedIds(polled[n], labels)), polled[n], labels)

\* PollCothorityAggregatedGroups: every group gets a fresh row ID.
GroupsById(n, groups) ==
  LET labels == SetToSeq(DOMAIN groups)
  IN [id \in (rowIdsIssued[n] + 1) .. (rowIdsIssued[n] + Len(labels)) |->
        labels[id - rowIdsIssued[n]]]
AttributesById(groups, byId) == [id \in DOMAIN byId |-> groups[byId[id]]]

\* PushQuerierKeyEncryptedData: groups and aggregates rejoined by row ID.
QuerierResults(groups, attrs) ==
  LET ids == SetToSeq((DOMAIN groups) \cap (DOMAIN attrs))
  IN [i \in 1 .. Len(ids) |-> Row(groups[ids[i]], attrs[ids[i]])]

\* DeterministicCipherVectorToGroupingAttributes and its inverse: the label
\* is the vector of deterministic ciphertexts, used as a map key.
GroupingAttributesOf(dcv) == dcv
DeterministicCipherVectorOf(label) == label

\* ------------------------------------------------------------- Private Aggregation
\* A fold in which the child's vector overwrites the local one.
FoldChild_Overwrite(local, childData) ==
  [group \in (DOMAIN local) \cup (DOMAIN childData) |->
     IF group \in DOMAIN childData THEN childData[group] ELSE local[group]]

\* One child's map folded into the local map (lines 118-125): aggr is read
\* from the LOCAL map under the child's group, and the child's own vector is
\* never read.
FoldChild(local, childData) ==
  [group \in (DOMAIN local) \cup (DOMAIN childData) |->
     IF group \in DOMAIN childData
       THEN LET ok == group \in DOMAIN local
                aggr == IF ok THEN local[group] ELSE NilVector
            IN IF ok
                 THEN LET localAggr == local[group] IN CVAdd(localAggr, aggr)
                 ELSE aggr
       ELSE local[group]]

RECURSIVE FoldAll(_, _)
FoldAll(local, contributions) ==
  IF contributions = <<>> THEN local
  ELSE FoldAll(FoldChild(local, Head(contributions).data), Tail(contributions))

\* A server that never reads its ChildDataChannel.
AwaitsChildren_Never(n) == FALSE

\* if !p.IsLeaf(): the server reads the ChildDataChannel.
AwaitsChildren(n) == ~IsLeaf(n)

\* The channel of type []ChildAggregatedDataStruct yields one slice, once a
\* message of every child has arrived.
ChildDataReady(n) == Len(aggChildChan[n]) >= Cardinality(Children(n))

RefMsg(from, to) == [type |-> "ref", from |-> from, to |-> to, data |-> EmptyMap]
ChildMsg(from, to, data) == [type |-> "child", from |-> from, to |-> to, data |-> data]

\* A server that never waits for the announcement.
AwaitsAnnouncement_Never(n) == FALSE

\* if !p.IsRoot(): Dispatch runs aggregationAnnouncementPhase first.
AwaitsAnnouncement(n) == ~IsRoot(n)

\* A server that never reports to its parent.
SendsToParent_Never(n) == FALSE

\* if !p.IsRoot(): p.SendToParent(...)
SendsToParent(n) == ~IsRoot(n)

\* ascendingAggregationPhase, from the read of the ChildDataChannel on.
AscendingAggregationPhase(n, net) ==
  LET contributions == IF AwaitsChildren(n) THEN aggChildChan[n] ELSE <<>>
      aggregated == FoldAll(LocalContribution(aggDataRef[n]), contributions)
  IN /\ aggDataRef' = [aggDataRef EXCEPT ![n] = Ref(aggregated)]
     /\ aggChildChan' = [aggChildChan EXCEPT ![n] = IF AwaitsChildren(n) THEN <<>> ELSE @]
     /\ aggFolded' = [aggFolded EXCEPT ![n] = [i \in 1 .. Len(contributions) |-> contributions[i].from]]
     /\ aggNet' = IF SendsToParent(n)
                    THEN net \cup {ChildMsg(n, Parent(n), aggregated)}
                    ELSE net
     /\ aggSent' = [aggSent EXCEPT ![n] = IF SendsToParent(n) THEN @ + 1 ELSE @]
     /\ aggFeedback' = IF IsRoot(n) THEN Append(aggFeedback, aggregated) ELSE aggFeedback
     /\ aggPc' = [aggPc EXCEPT ![n] = "done"]

\* if p.DataReference == nil: Start returns an error.
AggConfigError(ref) == ref.nil

\* PrivateAggregateProtocol.Start at the root.
AggStart ==
  /\ aggPc[Root] /= "none"
  /\ ~panicked[Root]
  /\ ~aggStarted
  /\ aggStarted' = TRUE
  /\ aggNet' = IF AggConfigError(aggDataRef[Root])
                 THEN aggNet
                 ELSE aggNet \cup {RefMsg(Root, c) : c \in Children(Root)}
  /\ aggStartErr' = IF AggConfigError(aggDataRef[Root]) THEN "error" ELSE "nil"
  /\ UNCHANGED <<aggPc, aggDataRef, aggRefChan, aggChildChan,
                 aggFeedback, aggSent, aggFolded, aggAnnounced, aggInput>>
  /\ UNCHANGED <<svcVars, storeVars, ringVars, panicked>>

\* A message reaches its server. The first message of the protocol makes the
\* service create the instance (NewProtocol, case "PrivateAggregate": the
\* DataReference is polled from the server's store, which faults when the
\* server has no store), and its Dispatch then waits for the announcement.
AggReceive(msg) ==
  LET n == msg.to
      fresh == aggPc[n] = "none"
      faults == fresh /\ ~created[n]
      polled_ == locallyAggregated[n]
  IN /\ msg \in aggNet
     /\ ~panicked[n]
     /\ aggNet' = aggNet \ {msg}
     /\ panicked' = [panicked EXCEPT ![n] = faults]
     /\ aggPc' = IF fresh /\ ~faults
                   THEN [aggPc EXCEPT ![n] = IF AwaitsAnnouncement(n) THEN "announce" ELSE "ascend"]
                   ELSE aggPc
     /\ aggDataRef' = IF fresh /\ ~faults THEN [aggDataRef EXCEPT ![n] = polled_] ELSE aggDataRef
     /\ aggInput' = IF fresh /\ ~faults THEN [aggInput EXCEPT ![n] = polled_] ELSE aggInput
     /\ locallyAggregated' = IF fresh /\ ~faults /\ ~polled_.nil
                               THEN [locallyAggregated EXCEPT ![n] = Ref(EmptyMap)]
                               ELSE locallyAggregated
     /\ aggRefChan' = IF msg.type = "ref" /\ ~faults
                        THEN [aggRefChan EXCEPT ![n] = @ + 1] ELSE aggRefChan
     /\ aggChildChan' = IF msg.type = "child" /\ ~faults
                          THEN [aggChildChan EXCEPT ![n] = Append(@, [from |-> msg.from, data |-> msg.data])]
                          ELSE aggChildChan
     /\ UNCHANGED <<aggStarted, aggFeedback, aggSent, aggFolded, aggAnnounced, aggStartErr>>
     /\ UNCHANGED <<svcVars, ringVars, collected, polled, cothorityAggregated,
                    deliverable, rowIdsIssued, pushedLabels>>

\* Dispatch of a non-root server: aggregationAnnouncementPhase, and for a
\* server that reads no ChildDataChannel the ascending phase right after it.
AggAnnouncementPhase(n) ==
  /\ aggPc[n] = "announce"
  /\ ~panicked[n]
  /\ aggRefChan[n] > 0
  /\ aggRefChan' = [aggRefChan EXCEPT ![n] = @ - 1]
  /\ aggAnnounced' = [aggAnnounced EXCEPT ![n] = @ + 1]
  /\ LET forwarded == IF ~IsLeaf(n)
                        THEN aggNet \cup {RefMsg(n, c) : c \in Children(n)}
                        ELSE aggNet
     IN IF AwaitsChildren(n)
          THEN /\ aggPc' = [aggPc EXCEPT ![n] = "ascend"]
               /\ aggNet' = forwarded
               /\ UNCHANGED <<aggDataRef, aggChildChan, aggFeedback, aggSent, aggFolded>>
          ELSE AscendingAggregationPhase(n, forwarded)
  /\ UNCHANGED <<aggStarted, aggInput, aggStartErr>>
  /\ UNCHANGED <<svcVars, storeVars, ringVars, panicked>>

\* Dispatch of a server waiting on its ChildDataChannel (the root starts
\* here): the slice of all children's messages arrives, is folded, and the
\* result goes to the parent or, at the root, to the FeedbackChannel.
AggAscendingPhase(n) ==
  /\ aggPc[n] = "ascend"
  /\ ~panicked[n]
  /\ AwaitsChildren(n) => ChildDataReady(n)
  /\ AscendingAggregationPhase(n, aggNet)
  /\ UNCHANGED <<aggRefChan, aggStarted, aggAnnounced, aggInput, aggStartErr>>
  /\ UNCHANGED <<svcVars, storeVars, ringVars, panicked>>

\* ------------------------------------------------------------- ring protocols
\* CipherVector.SwitchToDeterministic: (K, C) becomes (K, C - s*K + pi*K).
SwitchToDeterministic(cv, private, phKey) ==
  [i \in 1 .. Len(cv) |->
     CT(cv[i].K, PAdd(PSub(cv[i].C, Mul(private, cv[i].K)), Mul(phKey, cv[i].K)))]

\* A switch that leaves the share of the old key in place.
SwitchForKey_KeepsSecret(cv, private, origKeys, newKey, r) ==
  [i \in 1 .. Len(cv) |->
     CT(PAdd(cv[i].K, Mul(r, Base)), PAdd(cv[i].C, Mul(r, newKey)))]

\* CipherVector.SwitchForKey: (K, C) becomes (K + r*B, C - s*origK + r*newKey).
SwitchForKey(cv, private, origKeys, newKey, r) ==
  [i \in 1 .. Len(cv) |->
     CT(PAdd(cv[i].K, Mul(r, Base)),
        PAdd(PSub(cv[i].C, Mul(private, origKeys[i])), Mul(r, newKey)))]

\* CipherVector.SwitchToProbabilistic: the hop adds r*B to K and, to C, its
\* compensating term: its share pi*B of the survey's blinding is taken out
\* and r*newKey is put in. The seed is a trivial encryption (K = 0), so the
\* server's share of the collective secret has nothing to remove.
SwitchToProbabilistic(cv, private, phKey, newKey, r) ==
  [i \in 1 .. Len(cv) |->
     CT(PAdd(cv[i].K, Mul(r, Base)),
        PAdd(PSub(cv[i].C, Mul(phKey, Base)), Mul(r, newKey)))]

RingMsg(data, newKey, origKeys) ==
  [Data |-> data, NewKey |-> newKey, OriginalEphemeralKeys |-> origKeys]

\* A hop that switches with the initiator's per-survey scalar.
DSSurveyKey_OfRoot(n) == surveyPHKey[Root]

\* *p.SurveyPHKey: the scalar of the server the instance runs on.
DSSurveyKey(n) == surveyPHKey[n]

\* A hop that blinds every component with a scalar from the random stream.
DSHop_Randomised(n, msg, rand) ==
  [msg EXCEPT !.Data =
     [k \in DOMAIN msg.Data |->
        SwitchToDeterministic(msg.Data[k], Private(n), (DSSurveyKey(n) + rand) % GroupOrder)]]

\* Deterministic Switching, Dispatch lines 84-87. rand is what the server's
\* random stream would yield; the hop never draws from it.
DSHop(n, msg, rand) ==
  [msg EXCEPT !.Data =
     [k \in DOMAIN msg.Data |->
        SwitchToDeterministic(msg.Data[k], Private(n), DSSurveyKey(n))]]

\* *p.SurveyPHKey is a nil scalar on a server that created no survey:
\* multiplying a component by it faults.
DSHopFaults(n, msg) == ~created[n] /\ \E k \in DOMAIN msg.Data : Len(msg.Data[k]) > 0

\* Indexing OriginalEphemeralKeys[k] beyond its length faults.
KSHopFaults(msg) ==
  \E k \in DOMAIN msg.Data :
     /\ Len(msg.Data[k]) > 0
     /\ \/ k \notin DOMAIN msg.OriginalEphemeralKeys
        \/ Len(msg.OriginalEphemeralKeys[k]) < Len(msg.Data[k])

\* A hop that draws a new scalar for every row.
RandomnessContrib_PerRow(rand, k) == (rand + k) % GroupOrder

\* randomnessContrib := Pick(random.Stream), before the loop over the rows
\* (line 107): one scalar per instance, the same for every row k.
RandomnessContrib(rand, k) == rand

\* A hop that subtracts its secret against the evolving K of the working copy.
KSHop_EvolvingK(n, msg, rand) ==
  IF KSHopFaults(msg) THEN msg
  ELSE [msg EXCEPT !.Data =
          [k \in DOMAIN msg.Data |->
             SwitchForKey(msg.Data[k], Private(n),
                          [i \in 1 .. Len(msg.Data[k]) |-> msg.Data[k][i].K],
                          msg.NewKey, rand)]]

\* Key Switching, Dispatch lines 107-112: one scalar drawn per instance.
KSHop(n, msg, rand) ==
  IF KSHopFaults(msg) THEN msg
  ELSE [msg EXCEPT !.Data =
          [k \in DOMAIN msg.Data |->
             SwitchForKey(msg.Data[k], Private(n), msg.OriginalEphemeralKeys[k],
                          msg.NewKey, RandomnessContrib(rand, k))]]

\* Probabilistic Switching: the hop of one server.
PSHop(n, msg, rand) ==
  [msg EXCEPT !.Data =
     [k \in DOMAIN msg.Data |->
        SwitchToProbabilistic(msg.Data[k], Private(n), surveyPHKey[n], msg.NewKey, rand)]]

\* A ring in which the initiator's Dispatch applies no transform of its own.
Hop_NotAtInitiator(kind, n, msg, rand) ==
  CASE IsRoot(n) -> msg
    [] kind = "DS" -> DSHop(n, msg, rand)
    [] kind = "KS" -> KSHop(n, msg, rand)
    [] OTHER -> PSHop(n, msg, rand)

\* The transform of the instance's protocol (NewProtocol, by protocol name).
Hop(kind, n, msg, rand) ==
  CASE kind = "DS" -> DSHop(n, msg, rand)
    [] kind = "KS" -> KSHop(n, msg, rand)
    [] OTHER -> PSHop(n, msg, rand)

HopFaults(kind, n, msg) ==
  CASE kind = "DS" -> DSHopFaults(n, msg)
    [] kind = "KS" -> KSHopFaults(msg)
    [] OTHER -> FALSE

\* Deterministic Switching, Dispatch lines 92-97: deterministicSwitchedData[k]
\* is never allocated, so the assignment to its element i faults for every
\* row that has a component; rows without components leave the map empty.
DSDeliveryFaults(data) == \E k \in DOMAIN data : Len(data[k]) > 0
DeterministicSwitchedData(data) == EmptyMap

\* Key Switching, Start lines 83-92: p.originalEphemKeys[k] is never
\* allocated, so the assignment to its element i faults for every row that
\* has a component.
KSStartFaults(target) == \E k \in DOMAIN target : Len(target[k]) > 0
KSInitialMap(target) ==
  [k \in DOMAIN target |-> [i \in 1 .. Len(target[k]) |-> CT(Identity, target[k][i].C)]]
KSOriginalEphemKeys(target) == EmptyMap

\* Probabilistic Switching, Start: each deterministic ciphertext D is seeded
\* as the trivial encryption (K = 0, C = D).
PSInitialMap(target) ==
  [k \in DOMAIN target |-> [i \in 1 .. Len(target[k]) |-> CT(Identity, target[k][i])]]

\* The message Start sends to the next server.
StartMsg(kind, target, key) ==
  CASE kind = "DS" -> RingMsg(target, Identity, EmptyMap)
    [] kind = "KS" -> RingMsg(KSInitialMap(target), key, KSOriginalEphemKeys(target))
    [] OTHER -> RingMsg(PSInitialMap(target), key, EmptyMap)

\* A Start that checks its target only.
RingConfigError_TargetOnly(kind, target, key) == target.nil

\* Start returns an error when the target of the switch is nil and, for the
\* protocols that switch to a key, when the target public key is nil.
RingConfigError(kind, target, key) == target.nil \/ (kind /= "DS" /\ key.nil)

\* Start of the initiator's instance; sent tells whether SendTo succeeds.
\* sendToNext only logs the error of a failed send, and Start returns nil.
RingStartWith(sent) ==
  /\ ringPc[Root] /= "none"
  /\ ~ringStarted
  /\ ~panicked[Root]
  /\ ringStarted' = TRUE
  /\ LET configError == RingConfigError(ringKind, ringTarget, ringTargetKey)
         faults == ~configError /\ ringKind = "KS" /\ KSStartFaults(ringTarget.m)
         msg == StartMsg(ringKind, ringTarget.m, ringTargetKey.key)
     IN /\ ~sent => ~configError /\ ~faults
        /\ panicked' = [panicked EXCEPT ![Root] = faults]
        /\ ringNet' = IF configError \/ faults \/ ~sent
                        THEN ringNet
                        ELSE ringNet \cup {[to |-> NextNodeInCircuit(Root), msg |-> msg]}
        /\ ringStartErr' = IF configError THEN "error"
                           ELSE IF faults THEN "pending" ELSE "nil"
  /\ ringSendFailed' = IF sent THEN ringSendFailed ELSE ringSendFailed \cup {Root}
  /\ UNCHANGED <<ringKind, ringPc, ringTarget, ringTargetKey, ringChan, ringData,
                 ringFeedback, ringVisits, ringRand, ringDispatchErr>>
  /\ UNCHANGED <<svcVars, storeVars, aggVars>>

RingStart == RingStartWith(TRUE)

\* Start when the send to the next server fails.
RingStartSendError == RingStartWith(FALSE)

\* A ring message reaches its server; the first one makes the service create
\* the instance (NewProtocol), whose Dispatch waits on its channel.
RingReceive(m) ==
  /\ m \in ringNet
  /\ ~panicked[m.to]
  /\ ringNet' = ringNet \ {m}
  /\ ringPc' = IF ringPc[m.to] = "none" THEN [ringPc EXCEPT ![m.to] = "wait"] ELSE ringPc
  /\ ringChan' = [ringChan EXCEPT ![m.to] = Append(@, m.msg)]
  /\ UNCHANGED <<ringKind, ringTarget, ringTargetKey, ringStarted, ringData,
                 ringFeedback, ringVisits, ringRand, ringStartErr, ringDispatchErr,
                 ringSendFailed>>
  /\ UNCHANGED <<svcVars, storeVars, aggVars, panicked>>

\* Dispatch of a ring protocol: one message is read and transformed, then
\* delivered at the root or sent to the next server; sent tells whether
\* SendTo succeeds. Dispatch returns nil whatever sendToNext met.
RingDispatchWith(n, sent) ==
  /\ ringPc[n] = "wait"
  /\ ringChan[n] /= <<>>
  /\ ~panicked[n]
  /\ LET received == Head(ringChan[n])
         faultsInHop == HopFaults(ringKind, n, received)
         switched == IF faultsInHop THEN received
                     ELSE Hop(ringKind, n, received, ringRand[n])
         faultsAtDelivery == IsRoot(n) /\ ringKind = "DS" /\ DSDeliveryFaults(switched.Data)
         delivered == IF ringKind = "DS"
                        THEN DeterministicSwitchedData(switched.Data)
                        ELSE switched.Data
     IN /\ ~sent => ~IsRoot(n) /\ ~faultsInHop
        /\ ringChan' = [ringChan EXCEPT ![n] = Tail(@)]
        /\ ringPc' = [ringPc EXCEPT ![n] = "done"]
        /\ ringDispatchErr' = [ringDispatchErr EXCEPT ![n] =
                                 IF faultsInHop \/ faultsAtDelivery THEN "pending" ELSE "nil"]
        /\ ringData' = [ringData EXCEPT ![n] = switched.Data]
        /\ ringVisits' = IF faultsInHop THEN ringVisits ELSE Append(ringVisits, n)
        /\ panicked' = [panicked EXCEPT ![n] = faultsInHop \/ faultsAtDelivery]
        /\ ringFeedback' = IF IsRoot(n) /\ ~faultsInHop /\ ~faultsAtDelivery
                             THEN Append(ringFeedback, delivered)
                             ELSE ringFeedback
        /\ ringNet' = IF ~IsRoot(n) /\ ~faultsInHop /\ sent
                        THEN ringNet \cup {[to |-> NextNodeInCircuit(n), msg |-> switched]}
                        ELSE ringNet
  /\ ringSendFailed' = IF sent THEN ringSendFailed ELSE ringSendFailed \cup {n}
  /\ UNCHANGED <<ringKind, ringTarget, ringTargetKey, ringStarted, ringRand, ringStartErr>>
  /\ UNCHANGED <<svcVars, storeVars, aggVars>>

RingDispatch(n) == RingDispatchWith(n, TRUE)

\* Dispatch when the send to the next server fails.
RingDispatchSendError(n) == RingDispatchWith(n, FALSE)

\* ------------------------------------------------------------- service
\* The random streams explored for one protocol instance.
Streams == {[n \in Nodes |-> r] : r \in Rands}

\* mcs.NewTreeNodeInstance(mcs.tree, mcs.tree.Root) and the instance set up
\* on it: a fresh ring protocol instance at the root, its Dispatch waiting.
NewRingInstance(kind, target, key) ==
  /\ ringKind' = kind
  /\ ringPc' = [n \in Nodes |-> IF n = Root THEN "wait" ELSE "none"]
  /\ ringTarget' = target
  /\ ringTargetKey' = key
  /\ ringChan' = [n \in Nodes |-> <<>>]
  /\ ringNet' = {}
  /\ ringStarted' = FALSE
  /\ ringData' = [n \in Nodes |-> EmptyMap]
  /\ ringFeedback' = <<>>
  /\ ringVisits' = <<>>
  /\ ringRand' \in Streams
  /\ ringStartErr' = "pending"
  /\ ringDispatchErr' = [n \in Nodes |-> "pending"]
  /\ ringSendFailed' = {}

\* A fresh Private Aggregation instance at the root, its Dispatch waiting.
NewAggInstance(groupedData) ==
  /\ aggPc' = [n \in Nodes |-> IF n = Root THEN "ascend" ELSE "none"]
  /\ aggDataRef' = [n \in Nodes |-> IF n = Root THEN groupedData ELSE NilRef]
  /\ aggInput' = [n \in Nodes |-> IF n = Root THEN groupedData ELSE NilRef]
  /\ aggRefChan' = [n \in Nodes |-> 0]
  /\ aggChildChan' = [n \in Nodes |-> <<>>]
  /\ aggNet' = {}
  /\ aggStarted' = FALSE
  /\ aggFeedback' = <<>>
  /\ aggSent' = [n \in Nodes |-> 0]
  /\ aggFolded' = [n \in Nodes |-> <<>>]
  /\ aggAnnounced' = [n \in Nodes |-> 0]
  /\ aggStartErr' = "pending"

\* A coordinator that does not wait for the feedback.
Received_WithoutWaiting(chan) == TRUE

\* result := <- protocol.FeedbackChannel blocks until the instance has sent.
Received(chan) == chan /= <<>>

\* The value the receive yields (a map; nothing is read before it was sent).
Receive(chan) == IF chan = <<>> THEN EmptyMap ELSE chan[1]

\* The client sends the creation query to roster[0] only, once; the other
\* servers handle the copy roster[0] forwards to them.
CreationQueryArrives(n) == IF IsRoot(n) THEN ~created[Root] ELSE n \in creationNet

\* A service in which every server forwards the creation query.
ForwardsCreation_Always(n) == TRUE

\* if mcs.Entity().Equal(mcs.entityList.List[0]): only roster[0] forwards.
ForwardsCreation(n) == IsRoot(n)

\* The handler's body (lines 52-68): the roster, the tree, a new store and a
\* freshly picked per-survey scalar replace what the server had; roster[0]
\* forwards the query to the other servers.
SurveyCreation(n) ==
  /\ ~panicked[n]
  /\ created' = [created EXCEPT ![n] = TRUE]
  /\ \E pi \in Rands : surveyPHKey' = [surveyPHKey EXCEPT ![n] = pi]
  /\ creationNet' = (IF IsRoot(n) THEN creationNet ELSE creationNet \ {n})
                      \cup (IF ForwardsCreation(n) THEN Roster \ {n} ELSE {})
  /\ collected' = [collected EXCEPT ![n] = <<>>]
  /\ polled' = [polled EXCEPT ![n] = EmptyMap]
  /\ locallyAggregated' = [locallyAggregated EXCEPT ![n] = Ref(EmptyMap)]
  /\ cothorityAggregated' = [cothorityAggregated EXCEPT ![n] = EmptyMap]
  /\ deliverable' = [deliverable EXCEPT ![n] = <<>>]
  /\ rowIdsIssued' = [rowIdsIssued EXCEPT ![n] = 0]
  /\ UNCHANGED <<queries, lateRows, rosterLen, cosiVars, roundVars, rerandomized, coordinator, aborted, grpLen, submitted, qpc, qGroups, qAttrs, response, pushedLabels>>
  /\ UNCHANGED <<aggVars, ringVars, panicked>>

HandleSurveyCreationQuery(n) == CreationQueryArrives(n) /\ SurveyCreation(n)

\* A client sends a creation query to a server that already has a survey:
\* the handler has no guard and runs as the first time.
HandleSurveyCreationQueryAgain(n) == n \in Roster /\ created[n] /\ SurveyCreation(n)

\* The handler's body (line 76): the row, encrypted by the client under the
\* collective key, is inserted in the store of server n. mcs.store is nil on
\* a server that has not handled the creation query yet: the insert faults
\* there. late tells whether a results query is under way.
InsertClientResponse(n, g, k, late) ==
  /\ n \in Roster
  /\ created[Root]
  /\ Len(submitted) < MaxSubmits
  /\ ~panicked[n]
  /\ LET grp == [i \in 1 .. grpLen |-> g]
         agg == <<1>>
         resp == Row([i \in 1 .. grpLen |-> Encrypt(Aggregate, g, k)],
                     <<Encrypt(Aggregate, 1, k)>>)
     IN IF created[n]
          THEN /\ collected' = [collected EXCEPT ![n] = Append(@, resp)]
               /\ submitted' = Append(submitted, [srv |-> n, grp |-> grp, agg |-> agg])
               /\ lateRows' = IF late
                                THEN lateRows \cup {[row |-> Len(submitted) + 1, run |-> queries]}
                                ELSE lateRows
               /\ UNCHANGED panicked
          ELSE /\ panicked' = [panicked EXCEPT ![n] = TRUE]
               /\ UNCHANGED <<collected, submitted, lateRows>>
  /\ UNCHANGED <<queries, rosterLen, cosiVars, roundVars, rerandomized, coordinator, aborted, created, creationNet, surveyPHKey, grpLen, qpc, qGroups, qAttrs, response>>
  /\ UNCHANGED <<polled, locallyAggregated, cothorityAggregated, deliverable, rowIdsIssued,
                 pushedLabels>>
  /\ UNCHANGED <<aggVars, ringVars>>

\* A client that got the creation acknowledged sends a row to server n
\* while no results query is under way.
HandleSurveyResponseData(n, g, k) ==
  qpc = "idle" /\ InsertClientResponse(n, g, k, FALSE)

\* A client sends a row to server n while the coordinator waits for a
\* protocol of the results query.
HandleSurveyResponseDataDuringQuery(n, g, k) ==
  qpc \in {"ds", "agg", "ks", "ps"} /\ InsertClientResponse(n, g, k, TRUE)

\* HandleSurveyResultsQuery at server q, up to the wait of
\* flushCollectedData on the FeedbackChannel of Deterministic Switching: the
\* server polls its own store and creates the instance on mcs.tree.Root.
ResultsQuery(q) ==
  /\ created[q]
  /\ ~panicked[q]
  /\ coordinator' = q
  /\ LET rows == PolledRows(q)
     IN /\ polled' = [polled EXCEPT ![q] =
                        [id \in (DOMAIN @) \cup (DOMAIN rows) |->
                           IF id \in DOMAIN rows THEN rows[id] ELSE @[id]]]
        /\ rowIdsIssued' = [rowIdsIssued EXCEPT ![q] = @ + Len(collected[q])]
        /\ collected' = [collected EXCEPT ![q] = <<>>]
        /\ NewRingInstance("DS", Ref(ProbabilisticGroupingAttributes(rows)), NilKey)
  /\ qpc' = "ds"
  /\ queries' = queries + 1
  /\ UNCHANGED <<lateRows, rosterLen, cosiVars, roundVars, rerandomized, aborted, created, creationNet, surveyPHKey, grpLen, submitted, qGroups, qAttrs, response>>
  /\ UNCHANGED <<locallyAggregated, cothorityAggregated, deliverable, pushedLabels>>
  /\ UNCHANGED <<aggVars, panicked>>

HandleSurveyResultsQueryAt(q) == qpc = "idle" /\ ResultsQuery(q)

\* A further results query reaches roster[0] after the previous one returned.
HandleSurveyResultsQueryLater ==
  qpc = "returned" /\ queries < MaxQueries /\ ResultsQuery(Root)

\* The querier sends the results query to roster[0].
HandleSurveyResultsQuery == HandleSurveyResultsQueryAt(Root)

\* flushCollectedData after the feedback, then flushGroupedData up to its
\* wait on the FeedbackChannel of Private Aggregation.
AfterDeterministicSwitching ==
  /\ qpc = "ds"
  /\ Received(ringFeedback)
  /\ ~panicked[Root]
  /\ LET result == Receive(ringFeedback)
         labels == [k \in DOMAIN result |-> GroupingAttributesOf(result[k])]
         ids == JoinedIds(polled[Root], labels)
         grouped == GroupedByLabel(Root, labels)
     IN /\ polled' = [polled EXCEPT ![Root] = Without(@, ids)]
        /\ pushedLabels' = [pushedLabels EXCEPT ![Root] = Append(@, labels)]
        /\ locallyAggregated' = [locallyAggregated EXCEPT ![Root] = Ref(EmptyMap)]
        /\ NewAggInstance(Ref(grouped))
  /\ qpc' = "agg"
  /\ UNCHANGED <<queries, lateRows, rosterLen, cosiVars, roundVars, rerandomized, coordinator, aborted, created, creationNet, surveyPHKey, grpLen, submitted, qGroups, qAttrs, response>>
  /\ UNCHANGED <<collected, cothorityAggregated, deliverable, rowIdsIssued>>
  /\ UNCHANGED <<ringVars, panicked>>

\* flushGroupedData after the feedback, then flushAggregatedData up to its
\* wait on the FeedbackChannel of Key Switching.
AfterPrivateAggregation ==
  /\ qpc = "agg"
  /\ Received(aggFeedback)
  /\ ~panicked[Root]
  /\ LET groups == Receive(aggFeedback)
         byId == GroupsById(Root, groups)
     IN /\ cothorityAggregated' = [cothorityAggregated EXCEPT ![Root] = EmptyMap]
        /\ rowIdsIssued' = [rowIdsIssued EXCEPT ![Root] = @ + Cardinality(DOMAIN groups)]
        /\ qGroups' = byId
        /\ NewRingInstance("KS", Ref(AttributesById(groups, byId)), KeyRef(QuerierPublic))
  /\ qpc' = "ks"
  /\ UNCHANGED <<queries, lateRows, rosterLen, cosiVars, roundVars, rerandomized, coordinator, aborted, created, creationNet, surveyPHKey, grpLen, submitted, qAttrs, response>>
  /\ UNCHANGED <<collected, polled, locallyAggregated, deliverable, pushedLabels>>
  /\ UNCHANGED <<aggVars, panicked>>

\* flushAggregatedData between its two waits: the key-switched aggregates
\* are kept and Probabilistic Switching is started on the group labels.
AfterKeySwitching ==
  /\ qpc = "ks"
  /\ Received(ringFeedback)
  /\ ~panicked[Root]
  /\ qAttrs' = Receive(ringFeedback)
  /\ NewRingInstance("PS",
                     Ref([k \in DOMAIN qGroups |-> DeterministicCipherVectorOf(qGroups[k])]),
                     KeyRef(QuerierPublic))
  /\ qpc' = "ps"
  /\ UNCHANGED <<queries, lateRows, rosterLen, cosiVars, roundVars, rerandomized, coordinator, aborted, created, creationNet, surveyPHKey, grpLen, submitted, qGroups, response>>
  /\ UNCHANGED <<storeVars, aggVars, panicked>>

\* flushAggregatedData after its second wait, and the return of
\* HandleSurveyResultsQuery: the deliverable results are polled and sent.
AfterProbabilisticSwitching ==
  /\ qpc = "ps"
  /\ Received(ringFeedback)
  /\ ~panicked[Root]
  /\ response' = deliverable[Root] \o QuerierResults(Receive(ringFeedback), qAttrs)
  /\ deliverable' = [deliverable EXCEPT ![Root] = <<>>]
  /\ qpc' = "returned"
  /\ UNCHANGED <<queries, lateRows, rosterLen, cosiVars, roundVars, rerandomized, coordinator, aborted, created, creationNet, surveyPHKey, grpLen, submitted, qGroups, qAttrs>>
  /\ UNCHANGED <<collected, polled, locallyAggregated, cothorityAggregated, rowIdsIssued,
                 pushedLabels>>
  /\ UNCHANGED <<aggVars, ringVars, panicked>>

\* ------------------------------------------------------------- specifications
AggNext ==
  \/ AggStart
  \/ \E msg \in aggNet : AggReceive(msg)
  \/ \E n \in Nodes : AggAnnouncementPhase(n)
  \/ \E n \in Nodes : AggAscendingPhase(n)

RingNext ==
  \/ RingStart
  \/ \E m \in ringNet : RingReceive(m)
  \/ \E n \in Nodes : RingDispatch(n)

ServiceNext ==
  \/ \E n \in Nodes : HandleSurveyCreationQuery(n)
  \/ \E n \in Nodes, g \in Rands, k \in Rands : HandleSurveyResponseData(n, g, k)
  \/ HandleSurveyResultsQuery
  \/ AfterDeterministicSwitching
  \/ AfterPrivateAggregation
  \/ AfterKeySwitching
  \/ AfterProbabilisticSwitching

Next == ServiceNext \/ AggNext \/ RingNext

\* No Private Aggregation instance exists.
AggIdle ==
  /\ aggDataRef = [n \in Nodes |-> NilRef]
  /\ aggInput = aggDataRef
  /\ aggPc = [n \in Nodes |-> "none"]
  /\ aggRefChan = [n \in Nodes |-> 0]
  /\ aggChildChan = [n \in Nodes |-> <<>>]
  /\ aggNet = {}
  /\ aggStarted = FALSE
  /\ aggFeedback = <<>>
  /\ aggSent = [n \in Nodes |-> 0]
  /\ aggFolded = [n \in Nodes |-> <<>>]
  /\ aggAnnounced = [n \in Nodes |-> 0]
  /\ aggStartErr = "pending"

\* No ring protocol instance exists.
RingIdle ==
  /\ ringKind = "DS"
  /\ ringPc = [n \in Nodes |-> "none"]
  /\ ringTarget = NilRef
  /\ ringTargetKey = NilKey
  /\ ringChan = [n \in Nodes |-> <<>>]
  /\ ringNet = {}
  /\ ringStarted = FALSE
  /\ ringData = [n \in Nodes |-> EmptyMap]
  /\ ringFeedback = <<>>
  /\ ringVisits = <<>>
  /\ ringRand = [n \in Nodes |-> 1]
  /\ ringStartErr = "pending"
  /\ ringDispatchErr = [n \in Nodes |-> "pending"]
  /\ ringSendFailed = {}

\* The value of coordinator while no results query is being handled.
NoServer == N

\* No ciphertext is being re-randomized.
NothingEncrypted ==
  rerandomized = [secret |-> 0, plain |-> 0, cipher |-> CT(Identity, Identity), count |-> 0]

\* No query is being handled and nothing has been submitted.
ServiceIdle ==
  /\ rosterLen = N
  /\ CosiIdle
  /\ RoundsIdle
  /\ NothingEncrypted
  /\ coordinator = NoServer
  /\ aborted = FALSE
  /\ queries = 0
  /\ lateRows = {}
  /\ creationNet = {}
  /\ grpLen \in 0 .. MaxLen
  /\ submitted = <<>>
  /\ qpc = "idle"
  /\ qGroups = EmptyMap
  /\ qAttrs = EmptyMap
  /\ response = <<>>
  /\ panicked = [n \in Nodes |-> FALSE]

\* The stores hold nothing.
StoreEmpty ==
  /\ collected = [n \in Nodes |-> <<>>]
  /\ polled = [n \in Nodes |-> EmptyMap]
  /\ cothorityAggregated = [n \in Nodes |-> EmptyMap]
  /\ deliverable = [n \in Nodes |-> <<>>]
  /\ rowIdsIssued = [n \in Nodes |-> 0]
  /\ pushedLabels = [n \in Nodes |-> <<>>]

\* ---- the service: the servers have started, no survey exists yet.
Init ==
  /\ ServiceIdle
  /\ StoreEmpty
  /\ AggIdle
  /\ RingIdle
  /\ created = [n \in Nodes |-> FALSE]
  /\ surveyPHKey = [n \in Nodes |-> 0]
  /\ locallyAggregated = [n \in Nodes |-> NilRef]

Spec == Init /\ [][Next]_vars

\* The local contributions the servers may hold: maps from grouping
\* attributes to aggregate vectors.
AggMaps ==
  {EmptyMap,
   [g \in {<<1>>} |-> <<CT(1, 2)>>],
   [g \in {<<1>>} |-> <<CT(2, 0)>>],
   [g \in {<<2>>} |-> <<CT(1, 2)>>],
   [g \in {<<1>>, <<2>>} |-> IF g = <<1>> THEN <<CT(1, 2)>> ELSE <<CT(2, 0)>>]}
AggRefs == {Ref(m) : m \in AggMaps} \cup {NilRef}

\* ---- one Private Aggregation instance on its own: every server has
\* created the survey and holds some locally aggregated map, the root's
\* instance has been created with its contribution.
AggInit ==
  /\ ServiceIdle
  /\ grpLen = MaxLen
  /\ StoreEmpty
  /\ RingIdle
  /\ created = [n \in Nodes |-> TRUE]
  /\ surveyPHKey = [n \in Nodes |-> 1]
  /\ locallyAggregated \in [Nodes -> {Ref(m) : m \in AggMaps}]
  /\ locallyAggregated[Root] = Ref(EmptyMap)
  /\ aggDataRef \in [Nodes -> AggRefs]
  /\ \A n \in Nodes \ {Root} : aggDataRef[n] = NilRef
  /\ aggInput = aggDataRef
  /\ aggPc = [n \in Nodes |-> IF n = Root THEN "ascend" ELSE "none"]
  /\ aggRefChan = [n \in Nodes |-> 0]
  /\ aggChildChan = [n \in Nodes |-> <<>>]
  /\ aggNet = {}
  /\ aggStarted = FALSE
  /\ aggFeedback = <<>>
  /\ aggSent = [n \in Nodes |-> 0]
  /\ aggFolded = [n \in Nodes |-> <<>>]
  /\ aggAnnounced = [n \in Nodes |-> 0]
  /\ aggStartErr = "pending"

SpecAgg == AggInit /\ [][AggNext]_vars

\* What PollLocallyAggregatedResponses may hand to NewProtocol on a server
\* other than the root: nothing (nil), an empty map, or one group.
AggNilRefs ==
  {NilRef, Ref(EmptyMap),
   Ref([g \in {<<1>>} |-> <<CT(1, 2)>>]),
   Ref([g \in {<<2>>} |-> <<CT(2, 0)>>])}

\* ---- one Private Aggregation instance in which servers other than the
\* root may have no local contribution; the root's instance has been
\* created with a contribution.
AggNilInit ==
  /\ ServiceIdle
  /\ grpLen = MaxLen
  /\ StoreEmpty
  /\ RingIdle
  /\ created = [n \in Nodes |-> TRUE]
  /\ surveyPHKey = [n \in Nodes |-> 1]
  /\ locallyAggregated \in [Nodes -> AggNilRefs]
  /\ locallyAggregated[Root] = Ref(EmptyMap)
  /\ aggDataRef \in [Nodes -> AggNilRefs]
  /\ ~aggDataRef[Root].nil
  /\ \A n \in Nodes \ {Root} : aggDataRef[n] = NilRef
  /\ aggInput = aggDataRef
  /\ aggPc = [n \in Nodes |-> IF n = Root THEN "ascend" ELSE "none"]
  /\ aggRefChan = [n \in Nodes |-> 0]
  /\ aggChildChan = [n \in Nodes |-> <<>>]
  /\ aggNet = {}
  /\ aggStarted = FALSE
  /\ aggFeedback = <<>>
  /\ aggSent = [n \in Nodes |-> 0]
  /\ aggFolded = [n \in Nodes |-> <<>>]
  /\ aggAnnounced = [n \in Nodes |-> 0]
  /\ aggStartErr = "pending"

SpecAggNil == AggNilInit /\ [][AggNext]_vars

\* Under reliable delivery and fair scheduling every enabled step is taken.
SpecAggFair == AggInit /\ [][AggNext]_vars /\ WF_vars(AggNext)

\* The ciphertexts of the targets: plaintext 1 under two random scalars, and
\* plaintext 2, all under the collective key.
SampleCiphers == {Encrypt(Aggregate, 1, 1), Encrypt(Aggregate, 1, 2), Encrypt(Aggregate, 2, 1)}

\* map[uuid.UUID]CipherVector: rows 1..r, all of one length.
RingMaps == UNION {[1 .. r -> [1 .. len -> SampleCiphers]] : r \in 0 .. MaxRows, len \in 0 .. MaxLen}
RingTargets == {Ref(m) : m \in RingMaps} \cup {NilRef}

\* ---- one ring protocol instance on its own: every server has created the
\* survey and holds a per-survey scalar, the initiator's instance has been
\* created with some target.
RingInit ==
  /\ ServiceIdle
  /\ grpLen = MaxLen
  /\ StoreEmpty
  /\ AggIdle
  /\ created = [n \in Nodes |-> TRUE]
  /\ locallyAggregated = [n \in Nodes |-> Ref(EmptyMap)]
  /\ ringKind \in {"DS", "KS"}
  /\ surveyPHKey \in IF ringKind = "DS" THEN [Nodes -> Rands] ELSE [Nodes -> {1}]
  /\ ringTarget \in RingTargets
  /\ ringTargetKey \in IF ringKind = "KS" THEN {NilKey, KeyRef(QuerierPublic)} ELSE {NilKey}
  /\ ringRand \in IF ringKind = "KS" THEN [Nodes -> Rands] ELSE {[n \in Nodes |-> 1]}
  /\ ringPc = [n \in Nodes |-> IF n = Root THEN "wait" ELSE "none"]
  /\ ringChan = [n \in Nodes |-> <<>>]
  /\ ringNet = {}
  /\ ringStarted = FALSE
  /\ ringData = [n \in Nodes |-> EmptyMap]
  /\ ringFeedback = <<>>
  /\ ringVisits = <<>>
  /\ ringStartErr = "pending"
  /\ ringDispatchErr = [n \in Nodes |-> "pending"]
  /\ ringSendFailed = {}

SpecRing == RingInit /\ [][RingNext]_vars

\* A ring message reaches its server and a copy of it arrives once more: the
\* instance's channel gets both.
RingReceiveTwice(m) ==
  /\ m \in ringNet
  /\ ~panicked[m.to]
  /\ ringNet' = ringNet \ {m}
  /\ ringPc' = IF ringPc[m.to] = "none" THEN [ringPc EXCEPT ![m.to] = "wait"] ELSE ringPc
  /\ ringChan' = [ringChan EXCEPT ![m.to] = Append(Append(@, m.msg), m.msg)]
  /\ UNCHANGED <<ringKind, ringTarget, ringTargetKey, ringStarted, ringData,
                 ringFeedback, ringVisits, ringRand, ringStartErr, ringDispatchErr,
                 ringSendFailed>>
  /\ UNCHANGED <<svcVars, storeVars, aggVars, panicked>>

\* ---- one ring protocol instance over a network whose sends may fail and
\* which may deliver a message twice.
RingNextFaulty ==
  \/ RingNext
  \/ RingStartSendError
  \/ \E n \in Nodes : RingDispatchSendError(n)
  \/ \E m \in ringNet : RingReceiveTwice(m)

SpecRingFaulty == RingInit /\ [][RingNextFaulty]_vars

\* The message Key Switching puts on the wire for a target: the working copy
\* with K cleared, the new key, and the original ephemeral keys of every
\* component.
KSWireMsg(target, key) ==
  RingMsg(KSInitialMap(target), key,
          [k \in DOMAIN target |-> [i \in 1 .. Len(target[k]) |-> target[k][i].K]])

KSHopsNext ==
  \/ \E m \in ringNet : RingReceive(m)
  \/ \E n \in Nodes : RingDispatch(n)

\* ---- the hops of Key Switching on their own: the message of a Start is on
\* its way to the first server of the ring.
KSHopsInit ==
  /\ ServiceIdle
  /\ grpLen = MaxLen
  /\ StoreEmpty
  /\ AggIdle
  /\ created = [n \in Nodes |-> TRUE]
  /\ surveyPHKey = [n \in Nodes |-> 1]
  /\ locallyAggregated = [n \in Nodes |-> Ref(EmptyMap)]
  /\ ringKind = "KS"
  /\ ringTarget \in {Ref(m) : m \in RingMaps}
  /\ ringTargetKey = KeyRef(QuerierPublic)
  /\ ringRand \in [Nodes -> Rands]
  /\ ringPc = [n \in Nodes |-> IF n = Root THEN "wait" ELSE "none"]
  /\ ringChan = [n \in Nodes |-> <<>>]
  /\ ringNet = {[to |-> NextNodeInCircuit(Root),
                 msg |-> KSWireMsg(ringTarget.m, ringTargetKey.key)]}
  /\ ringStarted = TRUE
  /\ ringData = [n \in Nodes |-> EmptyMap]
  /\ ringFeedback = <<>>
  /\ ringVisits = <<>>
  /\ ringStartErr = "nil"
  /\ ringDispatchErr = [n \in Nodes |-> "pending"]
  /\ ringSendFailed = {}

SpecKSHops == KSHopsInit /\ [][KSHopsNext]_vars

QueryNext ==
  \/ HandleSurveyResultsQuery
  \/ AfterDeterministicSwitching
  \/ AfterPrivateAggregation
  \/ AfterKeySwitching
  \/ AfterProbabilisticSwitching
  \/ AggNext
  \/ RingNext

\* ---- one results query on its own: every server has created the survey,
\* and the clients have submitted their rows to the coordinator.
QueryInit ==
  /\ rosterLen = N
  /\ CosiIdle
  /\ RoundsIdle
  /\ NothingEncrypted
  /\ coordinator = NoServer
  /\ aborted = FALSE
  /\ queries = 0
  /\ lateRows = {}
  /\ creationNet = {}
  /\ grpLen \in 0 .. MaxLen
  /\ qpc = "idle"
  /\ qGroups = EmptyMap
  /\ qAttrs = EmptyMap
  /\ response = <<>>
  /\ panicked = [n \in Nodes |-> FALSE]
  /\ AggIdle
  /\ RingIdle
  /\ created = [n \in Nodes |-> TRUE]
  /\ surveyPHKey \in Streams
  /\ locallyAggregated = [n \in Nodes |-> Ref(EmptyMap)]
  /\ polled = [n \in Nodes |-> EmptyMap]
  /\ cothorityAggregated = [n \in Nodes |-> EmptyMap]
  /\ deliverable = [n \in Nodes |-> <<>>]
  /\ rowIdsIssued = [n \in Nodes |-> 0]
  /\ pushedLabels = [n \in Nodes |-> <<>>]
  /\ \E len \in 0 .. MaxSubmits : \E gs \in [1 .. len -> Rands], ks \in [1 .. len -> Rands] :
       /\ submitted = [i \in 1 .. len |->
                         [srv |-> Root, grp |-> [j \in 1 .. grpLen |-> gs[i]], agg |-> <<1>>]]
       /\ collected = [n \in Nodes |->
                         IF IsRoot(n)
                           THEN [i \in 1 .. len |->
                                   Row([j \in 1 .. grpLen |-> Encrypt(Aggregate, gs[i], ks[i])],
                                       <<Encrypt(Aggregate, 1, ks[i])>>)]
                           ELSE <<>>]

SpecQuery == QueryInit /\ [][QueryNext]_vars

\* The deterministic labels a row may get: one value per grouping attribute.
SampleLabels == {[j \in 1 .. grpLen |-> Mul(g, Base)] : g \in Rands}

\* The maps that label some of the rows of server n that wait for a label.
LabelMaps(n) == UNION {[S -> SampleLabels] : S \in (SUBSET DOMAIN polled[n]) \ {{}}}

\* PushDeterministicGroupingAttributes on the store of server n: the polled
\* rows named by labels leave the polled stage and are summed by label
\* into the locally aggregated map.
PushDeterministicGroupingAttributes(n, labels) ==
  /\ created[n]
  /\ ~panicked[n]
  /\ polled' = [polled EXCEPT ![n] = Without(@, JoinedIds(polled[n], labels))]
  /\ locallyAggregated' = [locallyAggregated EXCEPT ![n] = Ref(GroupedByLabel(n, labels))]
  /\ pushedLabels' = [pushedLabels EXCEPT ![n] = Append(@, labels)]
  /\ UNCHANGED <<collected, cothorityAggregated, deliverable, rowIdsIssued>>
  /\ UNCHANGED <<svcVars, aggVars, ringVars, panicked>>

StoreNext == \E n \in Nodes : \E labels \in LabelMaps(n) : PushDeterministicGroupingAttributes(n, labels)

\* ---- the survey store of the coordinator on its own: the rows the clients
\* submitted have been polled and wait for their labels.
StoreInit ==
  /\ rosterLen = N
  /\ CosiIdle
  /\ RoundsIdle
  /\ NothingEncrypted
  /\ coordinator = NoServer
  /\ aborted = FALSE
  /\ queries = 0
  /\ lateRows = {}
  /\ creationNet = {}
  /\ grpLen \in 0 .. MaxLen
  /\ qpc = "idle"
  /\ qGroups = EmptyMap
  /\ qAttrs = EmptyMap
  /\ response = <<>>
  /\ panicked = [n \in Nodes |-> FALSE]
  /\ AggIdle
  /\ RingIdle
  /\ created = [n \in Nodes |-> TRUE]
  /\ surveyPHKey = [n \in Nodes |-> 1]
  /\ locallyAggregated = [n \in Nodes |-> Ref(EmptyMap)]
  /\ collected = [n \in Nodes |-> <<>>]
  /\ cothorityAggregated = [n \in Nodes |-> EmptyMap]
  /\ deliverable = [n \in Nodes |-> <<>>]
  /\ pushedLabels = [n \in Nodes |-> <<>>]
  /\ \E len \in 0 .. MaxSubmits : \E gs \in [1 .. len -> Rands], ks \in [1 .. len -> Rands] :
       /\ submitted = [i \in 1 .. len |->
                         [srv |-> Root, grp |-> [j \in 1 .. grpLen |-> gs[i]], agg |-> <<1>>]]
       /\ rowIdsIssued = [n \in Nodes |-> IF IsRoot(n) THEN len ELSE 0]
       /\ polled = [n \in Nodes |->
                      IF IsRoot(n)
                        THEN [id \in 1 .. len |->
                                Row([j \in 1 .. grpLen |-> Encrypt(Aggregate, gs[id], ks[id])],
                                    <<Encrypt(Aggregate, 1, ks[id])>>)]
                        ELSE EmptyMap]

SpecStore == StoreInit /\ [][StoreNext]_vars

SingleNext ==
  \/ HandleSurveyCreationQuery(Root)
  \/ \E g \in Rands, k \in Rands : HandleSurveyResponseData(Root, g, k)
  \/ HandleSurveyResultsQuery
  \/ AfterDeterministicSwitching
  \/ AfterPrivateAggregation
  \/ AfterKeySwitching
  \/ AfterProbabilisticSwitching
  \/ AggStart
  \/ AggAscendingPhase(Root)
  \/ RingStart
  \/ \E m \in ringNet : RingReceive(m)
  \/ RingDispatch(Root)

\* ---- the service on a roster of one server: the tree is its root alone,
\* and the ring leads from the server to itself.
SingleInit ==
  /\ rosterLen = 1
  /\ CosiIdle
  /\ RoundsIdle
  /\ NothingEncrypted
  /\ coordinator = NoServer
  /\ aborted = FALSE
  /\ queries = 0
  /\ lateRows = {}
  /\ creationNet = {}
  /\ grpLen \in 0 .. MaxLen
  /\ submitted = <<>>
  /\ qpc = "idle"
  /\ qGroups = EmptyMap
  /\ qAttrs = EmptyMap
  /\ response = <<>>
  /\ panicked = [n \in Nodes |-> FALSE]
  /\ StoreEmpty
  /\ AggIdle
  /\ RingIdle
  /\ created = [n \in Nodes |-> FALSE]
  /\ surveyPHKey = [n \in Nodes |-> 0]
  /\ locallyAggregated = [n \in Nodes |-> NilRef]

SpecSingle == SingleInit /\ [][SingleNext]_vars

RecreateNext ==
  \/ \E n \in Nodes : HandleSurveyCreationQuery(n)
  \/ \E n \in Nodes : HandleSurveyCreationQueryAgain(n)
  \/ HandleSurveyResultsQuery
  \/ RingNext

\* ---- the service when clients may send further creation queries, up to
\* the first phase of a results query.
SpecRecreate == Init /\ [][RecreateNext]_vars

\* A vector after the partial deterministic switch of every server named.
RECURSIVE SwitchedByAll(_, _)
SwitchedByAll(cv, servers) ==
  IF servers = {} THEN cv
  ELSE LET n == CHOOSE x \in servers : TRUE
       IN SwitchedByAll(SwitchToDeterministic(cv, Private(n), DSSurveyKey(n)), servers \ {n})

\* The deterministic label the survey's Deterministic Switching makes of a
\* row's grouping attributes: every server's switch, then the C components.
DeterministicLabelOf(cv) == [i \in 1 .. Len(cv) |-> SwitchedByAll(cv, Roster)[i].C]

\* ---- one Probabilistic Switching instance on its own: the clients'
\* rows have got their deterministic labels in this survey, and the
\* coordinator's instance has been created to switch the labels to the
\* querier's key.
PSInit ==
  /\ rosterLen = N
  /\ CosiIdle
  /\ RoundsIdle
  /\ NothingEncrypted
  /\ coordinator = NoServer
  /\ aborted = FALSE
  /\ queries = 0
  /\ lateRows = {}
  /\ creationNet = {}
  /\ grpLen = MaxLen
  /\ qpc = "idle"
  /\ qAttrs = EmptyMap
  /\ response = <<>>
  /\ panicked = [n \in Nodes |-> FALSE]
  /\ StoreEmpty
  /\ AggIdle
  /\ created = [n \in Nodes |-> TRUE]
  /\ surveyPHKey \in [Nodes -> Rands]
  /\ locallyAggregated = [n \in Nodes |-> Ref(EmptyMap)]
  /\ \E len \in 0 .. MaxRows : \E gs \in [1 .. len -> Rands], ks \in [1 .. len -> Rands] :
       /\ submitted = [i \in 1 .. len |->
                         [srv |-> Root, grp |-> [j \in 1 .. grpLen |-> gs[i]], agg |-> <<1>>]]
       /\ qGroups = [id \in 1 .. len |->
                       GroupingAttributesOf(DeterministicLabelOf(
                         [j \in 1 .. grpLen |-> Encrypt(Aggregate, gs[id], ks[id])]))]
  /\ ringKind = "PS"
  /\ ringTarget = Ref([k \in DOMAIN qGroups |-> DeterministicCipherVectorOf(qGroups[k])])
  /\ ringTargetKey = KeyRef(QuerierPublic)
  /\ ringRand \in Streams
  /\ ringPc = [n \in Nodes |-> IF n = Root THEN "wait" ELSE "none"]
  /\ ringChan = [n \in Nodes |-> <<>>]
  /\ ringNet = {}
  /\ ringStarted = FALSE
  /\ ringData = [n \in Nodes |-> EmptyMap]
  /\ ringFeedback = <<>>
  /\ ringVisits = <<>>
  /\ ringStartErr = "pending"
  /\ ringDispatchErr = [n \in Nodes |-> "pending"]
  /\ ringSendFailed = {}

SpecPS == PSInit /\ [][RingNext]_vars

\* The scalars of the group: secrets, plaintexts and randomness.
Scalars == 0 .. (GroupOrder - 1)

\* The holder of a ciphertext re-randomizes it with the scalar r.
RerandomizeStep(r) ==
  /\ rerandomized.count < MaxRerandomizations
  /\ rerandomized' =
       [rerandomized EXCEPT !.cipher = Rerandomize(Mul(rerandomized.secret, Base), @, r),
                            !.count = @ + 1]
  /\ UNCHANGED <<queries, lateRows, rosterLen, cosiVars, roundVars, coordinator, aborted, created, creationNet, surveyPHKey, grpLen,
                 submitted, qpc, qGroups, qAttrs, response>>
  /\ UNCHANGED <<storeVars, aggVars, ringVars, panicked>>

RerandomizeNext == \E r \in Scalars : RerandomizeStep(r)

\* ---- the ciphertext algebra on its own: some plaintext has been
\* encrypted under some key with some randomness.
RerandomizeInit ==
  /\ rosterLen = N
  /\ CosiIdle
  /\ RoundsIdle
  /\ coordinator = NoServer
  /\ aborted = FALSE
  /\ queries = 0
  /\ lateRows = {}
  /\ creationNet = {}
  /\ grpLen = MaxLen
  /\ submitted = <<>>
  /\ qpc = "idle"
  /\ qGroups = EmptyMap
  /\ qAttrs = EmptyMap
  /\ response = <<>>
  /\ panicked = [n \in Nodes |-> FALSE]
  /\ StoreEmpty
  /\ AggIdle
  /\ RingIdle
  /\ created = [n \in Nodes |-> FALSE]
  /\ surveyPHKey = [n \in Nodes |-> 0]
  /\ locallyAggregated = [n \in Nodes |-> NilRef]
  /\ \E s \in Scalars, m \in Scalars, k \in Scalars :
       rerandomized = [secret |-> s, plain |-> m,
                       cipher |-> Encrypt(Mul(s, Base), m, k), count |-> 0]

SpecRerandomize == RerandomizeInit /\ [][RerandomizeNext]_vars

\* The tree node the flushes create their instances on (mcs.tree.Root),
\* whichever server handles the query.
InstanceNode == Root

\* The query handled by any server of the roster. What an instance created
\* on another server's node does lies in the framework; the run is followed
\* further when the coordinator is the root itself.
CoordinatorNext ==
  \/ \E q \in Roster : HandleSurveyResultsQueryAt(q)
  \/ coordinator = InstanceNode /\ AfterDeterministicSwitching
  \/ coordinator = InstanceNode /\ AfterPrivateAggregation
  \/ coordinator = InstanceNode /\ AfterKeySwitching
  \/ coordinator = InstanceNode /\ AfterProbabilisticSwitching
  \/ coordinator = InstanceNode /\ AggNext
  \/ coordinator = InstanceNode /\ RingNext

\* ---- one results query sent to some server of the roster.
SpecCoordinator == QueryInit /\ [][CoordinatorNext]_vars

\* The survey is aborted while an instance is under way. The service has no
\* handler for it and the protocols no cancellation signal: no feedback
\* channel is closed, and no Dispatch is told.
SurveyAbort ==
  /\ ~aborted
  /\ aborted' = TRUE
  /\ UNCHANGED <<queries, lateRows, rosterLen, cosiVars, roundVars, rerandomized, coordinator, created, creationNet, surveyPHKey,
                 grpLen, submitted, qpc, qGroups, qAttrs, response>>
  /\ UNCHANGED <<storeVars, aggVars, ringVars, panicked>>

\* ---- one protocol instance of any kind on its own, created at the root
\* and about to be started.
ProtocolInit == AggInit \/ RingInit
ProtocolNext == AggNext \/ RingNext
SpecProtocol == ProtocolInit /\ [][ProtocolNext]_vars

\* ---- one protocol instance during which the survey may be aborted.
AbortNext == ProtocolNext \/ SurveyAbort
SpecAbort == ProtocolInit /\ [][AbortNext]_vars

\* ------------------------------------------------------------- claims
\* The component-wise sum of the aggregates of all submitted rows whose
\* grouping plaintext is grp.
SubmittedSum(grp) ==
  LET same == {i \in 1 .. Len(submitted) : submitted[i].grp = grp}
  IN [c \in 1 .. 1 |-> SumOver(same, [i \in same |-> submitted[i].agg[c]])]

\* The grouping plaintexts among the submitted rows.
SubmittedGroups == {submitted[i].grp : i \in 1 .. Len(submitted)}

\* What the querier reads in entry j of the response.
GroupRead(j) == DecryptVector(QuerierSecret, response[j].grp)
AggregateRead(j) == DecryptVector(QuerierSecret, response[j].agg)

\* C1: the coordinator answers the results query without dying, and in its
\* response every submitted row finds an entry of its grouping plaintext,
\* and every entry's aggregate decrypts under the querier key to the sum of
\* the aggregates of all submitted rows of the entry's grouping plaintext.
C1_EndToEndAggregation ==
  /\ qpc /= "idle" => ~panicked[Root]
  /\ qpc = "returned" =>
       /\ \A grp \in SubmittedGroups : \E j \in 1 .. Len(response) : GroupRead(j) = grp
       /\ \A j \in 1 .. Len(response) : AggregateRead(j) = SubmittedSum(GroupRead(j))

\* C2: the response has exactly one entry per distinct grouping plaintext
\* among the submitted rows.
C2_OneEntryPerGroupingPlaintext ==
  qpc = "returned" =>
    /\ {GroupRead(j) : j \in 1 .. Len(response)} = SubmittedGroups
    /\ Len(response) = Cardinality(SubmittedGroups)

\* The component-wise sum of group g's vectors over the servers of S holding g.
RECURSIVE SumOfGroup(_, _)
SumOfGroup(S, g) ==
  LET x == CHOOSE y \in S : TRUE
      v == LocalContribution(aggInput[x])[g]
  IN IF S = {x} THEN v ELSE CVAdd(v, SumOfGroup(S \ {x}, g))

Holders(g) == {n \in Nodes : g \in DOMAIN LocalContribution(aggInput[n])}

\* The aggregate of all servers' contributions: the union of their groups,
\* each with the sum of its vectors.
ExpectedAggregate ==
  [g \in UNION {DOMAIN LocalContribution(aggInput[n]) : n \in Nodes} |->
     SumOfGroup(Holders(g), g)]

\* C3: when Private Aggregation terminates, the map the root delivers has the
\* union of all servers' groups as keys and, for each group, the sum of that
\* group's vectors over every server holding it.
C3_RootDeliversSumOfAllContributions ==
  aggFeedback /= <<>> => aggFeedback[1] = ExpectedAggregate

\* C4: a non-leaf server has sent to its parent, or the root has delivered,
\* only if every one of its children has sent its map and exactly those maps
\* were folded, in whatever order they arrived.
C4_EmitsOnlyAfterAllChildrenFolded ==
  \A n \in Nodes :
    (~IsLeaf(n) /\ (aggSent[n] > 0 \/ (IsRoot(n) /\ aggFeedback /= <<>>)))
      => /\ SeqToSet(aggFolded[n]) = Children(n)
         /\ Len(aggFolded[n]) = Cardinality(Children(n))
         /\ \A c \in Children(n) : aggSent[c] >= 1

\* The root delivered after its second child's map arrived before its first's.
C4_Witness ==
  /\ aggFeedback /= <<>>
  /\ aggFolded[Root] = <<2, 1>>
  /\ aggSent[1] = 1 /\ aggSent[2] = 1

\* The servers' children in increasing order, as a sequence.
RECURSIVE Ascending(_)
Ascending(S) ==
  IF S = {} THEN <<>>
  ELSE LET x == CHOOSE y \in S : \A z \in S : y <= z
       IN <<x>> \o Ascending(S \ {x})

\* The map a server reports when every parent folds its children in
\* increasing order of their index.
RECURSIVE InOrderResult(_)
InOrderResult(n) ==
  LET kids == Ascending(Children(n))
  IN FoldAll(LocalContribution(aggInput[n]),
             [i \in 1 .. Len(kids) |-> [from |-> kids[i], data |-> InOrderResult(kids[i])]])

\* C5: whatever the order in which the children's messages arrived and were
\* folded, the root's final map is the one obtained by folding the children
\* in increasing order: the result depends on the contributions alone.
C5_ResultIndependentOfArrivalOrder ==
  aggFeedback /= <<>> => aggFeedback[1] = InOrderResult(Root)

\* The root folded child 2 before child 1, both reporting a group the root holds.
C5_Witness ==
  /\ aggFeedback /= <<>>
  /\ aggFolded[Root] = <<2, 1>>
  /\ \E g \in DOMAIN LocalContribution(aggInput[Root]) :
       /\ g \in DOMAIN LocalContribution(aggInput[1])
       /\ g \in DOMAIN LocalContribution(aggInput[2])
       /\ aggInput[1].m[g] /= aggInput[2].m[g]

AggTerminated ==
  /\ Len(aggFeedback) = 1
  /\ \A n \in Nodes \ {Root} : aggSent[n] = 1

\* C6: an instance whose root holds a non-nil contribution eventually
\* terminates, the root having sent exactly one map on its feedback channel
\* and every other server exactly one ChildAggregatedData message; none ever
\* sends more.
C6_AggregationTerminates ==
  /\ [](Len(aggFeedback) <= 1 /\ \A n \in Nodes : aggSent[n] <= 1)
  /\ <>[](aggInput[Root].nil \/ AggTerminated)

C6_Witness ==
  /\ ~aggInput[Root].nil
  /\ AggTerminated
  /\ \A n \in Nodes : aggPc[n] = "done"

\* The ring order seen from the initiator: 1, 2, ..., N-1 and finally 0.
RingOrder == [i \in 1 .. rosterLen |-> i % rosterLen]

IsPrefix(a, b) == Len(a) <= Len(b) /\ \A i \in 1 .. Len(a) : a[i] = b[i]

\* The ring has closed: the initiator's Dispatch has read the returning message.
RingClosed == ringPc[Root] = "done"

\* C7: in a Deterministic Switching or Key Switching instance the message
\* visits the servers 1, 2, ..., N-1 and finally the initiator 0, each
\* applying its transform once, and nothing is delivered before all N have.
C7_RingVisitsInOrder ==
  /\ IsPrefix(ringVisits, RingOrder)
  /\ RingClosed => ringVisits = RingOrder
  /\ ringFeedback /= <<>> => ringVisits = RingOrder
  /\ Len(ringFeedback) <= 1

\* A Key Switching instance went round the whole ring and delivered.
C7_Witness ==
  /\ ringKind = "KS"
  /\ ringVisits = RingOrder
  /\ Len(ringFeedback) = 1

SumOfSurveyKeys == SumOver(Roster, [n \in Roster |-> surveyPHKey[n]])

\* C8: once the ring of a Deterministic Switching instance has closed, every
\* component (K, C0) of every row has become (K, C0 - (sum s_i)*K +
\* (sum pi_i)*K) = (K, M + (sum pi_i)*K), and no hop changed K.
C8_DeterministicSwitchTotal ==
  (ringKind = "DS" /\ RingClosed) =>
    \A k \in DOMAIN ringTarget.m : \A i \in 1 .. Len(ringTarget.m[k]) :
      LET in == ringTarget.m[k][i]
          out == ringData[Root][k][i]
      IN /\ out.C = PAdd(PSub(in.C, Mul(CollectiveSecret, in.K)), Mul(SumOfSurveyKeys, in.K))
         /\ out.C = PAdd(Decrypt(CollectiveSecret, in), Mul(SumOfSurveyKeys, in.K))
         /\ \A n \in Nodes : ringData[n][k][i].K = in.K

\* The ring closed on a row with a component, the servers' scalars differing.
C8_Witness ==
  /\ ringKind = "DS" /\ RingClosed
  /\ \E k \in DOMAIN ringTarget.m : Len(ringTarget.m[k]) > 0
  /\ surveyPHKey[1] /= surveyPHKey[Root]

\* C9: two grouping attributes of one survey that encrypt the same plaintext
\* have equal deterministic ciphertexts (C components) once switched.
C9_EqualPlaintextsEqualLabels ==
  (ringKind = "DS" /\ RingClosed) =>
    \A k1, k2 \in DOMAIN ringTarget.m : \A i \in 1 .. Len(ringTarget.m[k1]) :
      Decrypt(CollectiveSecret, ringTarget.m[k1][i]) = Decrypt(CollectiveSecret, ringTarget.m[k2][i])
        => ringData[Root][k1][i].C = ringData[Root][k2][i].C

\* The message after the hops of the servers of order, in that order, each
\* with what stream yields at it.
RECURSIVE DSRun(_, _, _)
DSRun(order, msg, stream) ==
  IF order = <<>> THEN msg
  ELSE DSRun(Tail(order), DSHop(Head(order), msg, stream[Head(order)]), stream)

C11_DeliversSwitchedLabels ==
  (ringKind = "DS" /\ RingClosed) =>
    /\ ~panicked[Root]
    /\ Len(ringFeedback) = 1
    /\ DOMAIN ringFeedback[1] = DOMAIN ringTarget.m
    /\ \A k \in DOMAIN ringTarget.m :
         /\ Len(ringFeedback[1][k]) = Len(ringTarget.m[k])
         /\ \A i \in 1 .. Len(ringTarget.m[k]) :
              ringFeedback[1][k][i] = ringData[Root][k][i].C

\* Start of Key Switching has run on a target and a key that are present.
KSStartRan ==
  /\ ringKind = "KS"
  /\ ringStarted
  /\ ~ringTarget.nil
  /\ ~ringTargetKey.nil

\* C12: Start of Key Switching completes without fault on every target and
\* sends one message to the next server, in which every component has K
\* cleared to the identity and C kept, and OriginalEphemeralKeys holds the K
\* of every component of the target.
C12_KeySwitchingStartSends ==
  (KSStartRan /\ ringPc[NextNodeInCircuit(Root)] = "none") =>
    /\ ~panicked[Root]
    /\ Cardinality(ringNet) = 1
    /\ \A sent \in ringNet :
         /\ sent.to = NextNodeInCircuit(Root)
         /\ sent.msg.NewKey = ringTargetKey.key
         /\ DOMAIN sent.msg.Data = DOMAIN ringTarget.m
         /\ \A k \in DOMAIN ringTarget.m :
              /\ Len(sent.msg.Data[k]) = Len(ringTarget.m[k])
              /\ \A i \in 1 .. Len(ringTarget.m[k]) :
                   /\ sent.msg.Data[k][i] = CT(Identity, ringTarget.m[k][i].C)
                   /\ k \in DOMAIN sent.msg.OriginalEphemeralKeys
                   /\ Len(sent.msg.OriginalEphemeralKeys[k]) = Len(ringTarget.m[k])
                   /\ sent.msg.OriginalEphemeralKeys[k][i] = ringTarget.m[k][i].K

\* The sum of the scalars the servers drew in this instance.
SumOfRands == SumOver(Roster, [n \in Roster |-> ringRand[n]])

Predecessor(n) == (n + rosterLen - 1) % rosterLen
DataReceivedAt(n) ==
  IF Predecessor(n) = Root THEN KSInitialMap(ringTarget.m) ELSE ringData[Predecessor(n)]

\* The messages of the instance, on the wire or in a channel.
RingMsgsAround ==
  {m.msg : m \in ringNet} \cup UNION {SeqToSet(ringChan[n]) : n \in Nodes}

C15_PhasesInStrictOrder ==
  [][ /\ (aggPc[Root] = "none" /\ aggPc'[Root] /= "none") =>
           /\ qpc = "ds" /\ ringKind = "DS"
           /\ Len(ringFeedback) = 1
           /\ (DOMAIN polled'[Root]) \cap (DOMAIN ringFeedback[1]) = {}
      /\ (ringKind /= "KS" /\ ringKind' = "KS") =>
           /\ qpc = "agg"
           /\ Len(aggFeedback) = 1
           /\ {qGroups'[id] : id \in DOMAIN qGroups'} = DOMAIN aggFeedback[1]
           /\ \A id \in DOMAIN qGroups' : ringTarget'.m[id] = aggFeedback[1][qGroups'[id]]
      /\ (ringKind /= "PS" /\ ringKind' = "PS") =>
           /\ qpc = "ks" /\ ringKind = "KS"
           /\ Len(ringFeedback) = 1
           /\ qAttrs' = ringFeedback[1]
      /\ (qpc /= "returned" /\ qpc' = "returned") =>
           /\ qpc = "ps" /\ ringKind = "PS"
           /\ Len(ringFeedback) = 1
    ]_vars

\* The query was answered after all four protocols delivered.
C15_Witness ==
  /\ qpc = "returned"
  /\ ringKind = "PS" /\ Len(ringFeedback) = 1
  /\ Len(aggFeedback) = 1
  /\ submitted /= <<>>

\* C16: the coordinator goes on to the phases after Deterministic Switching
\* only if that phase labelled every row it polled, and a response returned
\* as a success is not empty when rows were submitted to the coordinator.
C16_FailedPhaseStopsPipeline ==
  /\ qpc \in {"agg", "ks", "ps", "returned"} => DOMAIN polled[Root] = {}
  /\ qpc = "returned" =>
       ((\E i \in 1 .. Len(submitted) : submitted[i].srv = Root) => response /= <<>>)

\* C17: an instance whose send to the next server failed ends as failed: its
\* Start, or its Dispatch, returns an error.
C17_SendErrorFailsInstance ==
  \A n \in ringSendFailed :
    IF IsRoot(n) THEN ringStartErr = "error" ELSE ringDispatchErr[n] = "error"

\* The instance was started without its target, or without the key it
\* switches to.
RingMisconfigured == ringTarget.nil \/ (ringKind = "KS" /\ ringTargetKey.nil)

\* C18: Start of Deterministic Switching and of Key Switching without a
\* target, Start of Key Switching without a target public key, and Start of
\* Private Aggregation without a data reference return an error and send
\* no message.
C18_ConfigErrorsFailStart ==
  /\ (ringStarted /\ RingMisconfigured) =>
       /\ ringStartErr = "error"
       /\ ~panicked[Root]
       /\ ringNet = {}
       /\ \A n \in Nodes \ {Root} : ringPc[n] = "none"
  /\ (aggStarted /\ aggInput[Root].nil) =>
       /\ aggStartErr = "error"
       /\ aggNet = {}
       /\ \A n \in Nodes \ {Root} : aggPc[n] = "none"

\* Key Switching was started on a target with a component, without a key.
C18_Witness ==
  /\ ringKind = "KS" /\ ringStarted
  /\ ~ringTarget.nil /\ ringTargetKey.nil
  /\ \E k \in DOMAIN ringTarget.m : Len(ringTarget.m[k]) > 0
  /\ ringStartErr = "error"

\* C19: an instance that has handled its message and finds another one in
\* its channel aborts with an error; the message is not left there.
C19_DuplicateAborts ==
  \A n \in Nodes :
    (ringPc[n] = "done" /\ ~panicked[n] /\ ringChan[n] /= <<>>) => ringDispatchErr[n] = "error"

\* C20: when the results are returned no submitted row is left in a staged
\* queue of any server: every row has flowed through the phases into the
\* delivered results.
C20_RowsFlowThroughPhasesOnce ==
  qpc = "returned" =>
    \A n \in Nodes : collected[n] = <<>> /\ DOMAIN polled[n] = {}


\* The component-wise sum of the aggregate vectors of the rows named by ids.
SumOfAggregates(ids, rows) ==
  [c \in 1 .. 1 |-> CT(SumOver(ids, [id \in ids |-> rows[id].agg[c].K]),
                       SumOver(ids, [id \in ids |-> rows[id].agg[c].C]))]

\* C21: a step that pushes deterministic labels leaves in the locally
\* aggregated map exactly the labels it had plus the labels pushed for
\* polled rows, and under every label the vector it had (if any) plus the
\* component-wise sum of the aggregates of exactly the polled rows whose
\* row ID was pushed with that label.
C21_PushGroupsRowsByLabel ==
  [][\A n \in Nodes :
       pushedLabels'[n] /= pushedLabels[n] =>
         LET labels == pushedLabels'[n][Len(pushedLabels'[n])]
             rows == polled[n]
             before == LocalContribution(locallyAggregated[n])
             after == LocalContribution(locallyAggregated'[n])
             withLabel(label) == {id \in JoinedIds(rows, labels) : labels[id] = label}
         IN /\ DOMAIN after = (DOMAIN before) \cup {labels[id] : id \in JoinedIds(rows, labels)}
            /\ \A label \in DOMAIN after :
                 after[label] =
                   IF withLabel(label) = {} THEN before[label]
                   ELSE IF label \in DOMAIN before
                     THEN CVAdd(before[label], SumOfAggregates(withLabel(label), rows))
                     ELSE SumOfAggregates(withLabel(label), rows)]_vars

\* Two rows were pushed with one label, and the label has an entry.
C21_Witness ==
  \E n \in Nodes :
     /\ pushedLabels[n] /= <<>>
     /\ \E i, j \in DOMAIN pushedLabels[n][1] :
          /\ i /= j
          /\ pushedLabels[n][1][i] = pushedLabels[n][1][j]
          /\ pushedLabels[n][1][i] \in DOMAIN locallyAggregated[n].m
          /\ locallyAggregated[n].m[pushedLabels[n][1][i]][1].K = Mul(3, Base)


\* C22: on a roster of one server the coordinator does not die; the next
\* hop of a ring instance is the initiator itself, which applies its
\* transform once and delivers; Private Aggregation at the root, which is
\* also a leaf, delivers its own map without folding any child; and the
\* query on one submitted row returns that row's group and aggregates.
C22_SingleServerPipeline ==
  rosterLen = 1 =>
    /\ NextNodeInCircuit(Root) = Root
    /\ qpc /= "idle" => ~panicked[Root]
    /\ ringPc[Root] = "done" => ringVisits = <<Root>> /\ Len(ringFeedback) = 1
    /\ aggPc[Root] = "done" =>
         /\ aggFolded[Root] = <<>>
         /\ aggFeedback = <<LocalContribution(aggInput[Root])>>
    /\ (qpc = "returned" /\ Len(submitted) = 1) =>
         /\ Len(response) = 1
         /\ GroupRead(1) = submitted[1].grp
         /\ AggregateRead(1) = submitted[1].agg


\* C23: no step changes the per-survey scalar of a server that has handled
\* the survey creation query; the hops of Deterministic Switching read the
\* scalar through a pointer to the server's field, so they use that value.
C23_SurveyKeyImmutable ==
  [][\A n \in Nodes : created[n] => surveyPHKey'[n] = surveyPHKey[n]]_vars


\* The way back: the holder of the target key's secret switches a vector it
\* received to the collective key as an initiator and only server would,
\* clearing K, keeping the ephemeral keys aside and applying one partial
\* switch with its secret and the scalar r.
SwitchedBack(cv, r) ==
  SwitchForKey([i \in 1 .. Len(cv) |-> CT(Identity, cv[i].C)], QuerierSecret,
               [i \in 1 .. Len(cv) |-> cv[i].K], Aggregate, r)

C26_RerandomizeRoundTrip ==
  Decrypt(rerandomized.secret, rerandomized.cipher) = Mul(rerandomized.plain, Base)

\* A ciphertext of plaintext 2 under the key of secret 3, re-randomized the
\* most times, and no longer the ciphertext of any of the first two steps.
C26_Witness ==
  /\ rerandomized.count = MaxRerandomizations
  /\ rerandomized.plain = 2
  /\ rerandomized.secret = 3
  /\ rerandomized.cipher.K = Mul(4, Base)


\* A step in which a flush creates the instance of its phase.
InstanceCreated ==
  /\ qpc' /= qpc
  /\ qpc' \in {"ds", "agg", "ks", "ps"}

\* C27: every step that creates the instance of a phase leaves an instance
\* in which nothing has happened yet (no server but the one of its root node
\* has an instance, nothing was sent, started or delivered), and the node
\* the instance is rooted at is the node of the server handling the query.
C27_FreshInstanceAtCoordinator ==
  [][InstanceCreated =>
       /\ InstanceNode = coordinator'
       /\ IF qpc' = "agg"
            THEN /\ \A n \in Nodes : aggPc'[n] /= "none" <=> n = InstanceNode
                 /\ aggNet' = {} /\ ~aggStarted' /\ aggFeedback' = <<>>
                 /\ \A n \in Nodes : aggChildChan'[n] = <<>> /\ aggRefChan'[n] = 0
            ELSE /\ \A n \in Nodes : ringPc'[n] /= "none" <=> n = InstanceNode
                 /\ ringNet' = {} /\ ~ringStarted' /\ ringFeedback' = <<>>
                 /\ \A n \in Nodes : ringChan'[n] = <<>>]_vars


\* C28: once the survey is aborted, no step of a protocol instance puts a
\* further message on the wire or delivers on a feedback channel.
C28_AbortStopsInstances ==
  [][aborted =>
       /\ ringNet' \subseteq ringNet
       /\ aggNet' \subseteq aggNet
       /\ ringFeedback' = ringFeedback
       /\ aggFeedback' = aggFeedback]_vars


\* One child's map folded as the fold step is described: the child's vector
\* is added to the parent's vector of the group, or inserted.
FoldAsClaimed(local, childData) ==
  [group \in (DOMAIN local) \cup (DOMAIN childData) |->
     IF group \in DOMAIN childData
       THEN IF group \in DOMAIN local
              THEN CVAdd(local[group], childData[group])
              ELSE childData[group]
       ELSE local[group]]

RECURSIVE FoldAllAsClaimed(_, _)
FoldAllAsClaimed(local, contributions) ==
  IF contributions = <<>> THEN local
  ELSE FoldAllAsClaimed(FoldAsClaimed(local, Head(contributions).data), Tail(contributions))

\* C29: the map a server holds after its ascending phase is its own map
\* with each child's map folded in, one after the other: for every group of
\* the child's map the sum of the parent's and the child's vectors when the
\* parent had the group, the child's vector otherwise, and the other
\* entries unchanged.
C29_FoldStep ==
  [][\A n \in Nodes :
       (aggPc[n] /= "done" /\ aggPc'[n] = "done") =>
         aggDataRef'[n] =
           Ref(FoldAllAsClaimed(LocalContribution(aggDataRef[n]),
                                IF AwaitsChildren(n) THEN aggChildChan[n] ELSE <<>>))]_vars


\* The announcements addressed to a server that it has not read yet.
AnnouncementsPending(n) ==
  aggRefChan[n] + Cardinality({msg \in aggNet : msg.type = "ref" /\ msg.to = n})

\* C30: a server other than the root has sent its ChildAggregatedData only
\* after reading the announcement, so nothing travels upward before the
\* root's Start has broadcast it; a server is sent the announcement at most
\* once and has read exactly one when it reports; only servers with
\* children forward it, and only after reading their own.
C30_AnnouncementBeforeAscent ==
  /\ \A n \in Nodes \ {Root} :
       /\ aggSent[n] > 0 => aggAnnounced[n] = 1
       /\ aggAnnounced[n] + AnnouncementsPending(n) <= 1
  /\ \A msg \in aggNet :
       /\ msg.type = "child" => (aggStarted /\ aggStartErr = "nil" /\ aggAnnounced[msg.from] = 1)
       /\ msg.type = "ref" =>
            /\ ~IsLeaf(msg.from)
            /\ msg.to \in Children(msg.from)
            /\ IF IsRoot(msg.from) THEN aggStarted ELSE aggAnnounced[msg.from] = 1
  /\ aggFeedback /= <<>> => \A n \in Nodes \ {Root} : aggAnnounced[n] = 1 /\ aggSent[n] = 1

\* Every server has reported to its parent, each after one announcement,
\* and the root has delivered.
C30_Witness ==
  /\ aggFeedback /= <<>>
  /\ aggStartErr = "nil"
  /\ \A n \in Nodes \ {Root} : aggAnnounced[n] = 1 /\ aggSent[n] = 1 /\ aggRefChan[n] = 0
  /\ \E n \in Nodes \ {Root} : ~IsLeaf(n) /\ aggFolded[n] /= <<>>


\* The instance was started on a target and, where the protocol needs one,
\* a key that are present.
RingStartedValid ==
  ringStarted /\ ~RingConfigError(ringKind, ringTarget, ringTargetKey)

\* Nothing is in flight and no Dispatch can read a message: the instance
\* takes no further step.
RingAtRest ==
  /\ ringStarted
  /\ ringNet = {}
  /\ \A n \in Nodes : ~(ringPc[n] = "wait" /\ ringChan[n] /= <<>> /\ ~panicked[n])

\* C31: a Deterministic Switching or Key Switching instance started with
\* valid inputs never sends a second result, and comes to rest only after
\* the initiator has sent one result on its feedback channel and every
\* other server's Dispatch has read one message, forwarded it and returned.
C31_RingInstanceRunsToDelivery ==
  /\ Len(ringFeedback) <= 1
  /\ (RingStartedValid /\ RingAtRest) =>
       /\ Len(ringFeedback) = 1
       /\ \A n \in Roster \ {Root} :
            /\ ringPc[n] = "done"
            /\ ringChan[n] = <<>>
            /\ ringDispatchErr[n] = "nil"


\* ---- survey creation on its own: the client's creation query reaches
\* roster[0], the forwarded copies reach the other servers, and a client
\* that got the acknowledgement submits rows to roster[0] meanwhile.
CreationNext ==
  \/ \E n \in Nodes : HandleSurveyCreationQuery(n)
  \/ \E g \in Rands, k \in Rands : HandleSurveyResponseData(Root, g, k)

SpecCreation == Init /\ [][CreationNext]_vars

\* Messages are delivered and every server's handler runs.
SpecCreationFair ==
  /\ Init
  /\ [][CreationNext]_vars
  /\ \A n \in Nodes : WF_vars(HandleSurveyCreationQuery(n))

\* The creation messages sent so far: those in flight and those handled.
CreationMessagesSent ==
  Cardinality(creationNet) + Cardinality({n \in Roster \ {Root} : created[n]})

\* A server has initialised its survey: its store and its scalar exist.
SurveyInitialised(n) ==
  created[n] /\ surveyPHKey[n] \in Rands /\ ~locallyAggregated[n].nil

CreationPropagatesOnce ==
  /\ creationNet \subseteq Roster \ {Root}
  /\ ~created[Root] => (creationNet = {} /\ \A n \in Roster : ~created[n])
  /\ created[Root] =>
       /\ \A n \in Roster \ {Root} : (n \in creationNet) /= created[n]
       /\ CreationMessagesSent = rosterLen - 1

\* C32: once roster[0] has handled the creation query, each other server
\* is sent the query exactly once (it is in flight or has been handled,
\* never both), no other server forwards it, so N-1 creation messages are
\* sent in all; the propagation ends and from then on every server of the
\* roster has its store and its own scalar.
C32_CreationReachesEveryServerOnce ==
  /\ []CreationPropagatesOnce
  /\ <>[](creationNet = {} /\ \A n \in Roster : SurveyInitialised(n))

\* The propagation has ended with the servers holding different scalars,
\* rows already collected at roster[0].
C32_Witness ==
  /\ creationNet = {}
  /\ \A n \in Roster : SurveyInitialised(n)
  /\ CreationMessagesSent = N - 1
  /\ surveyPHKey[1] /= surveyPHKey[2]
  /\ Len(collected[Root]) = MaxSubmits


\* In this step server n handles a client's row (it is stored, or the
\* handler faults) or the service creates a protocol instance on n.
HandlesSurveyRequest(n) ==
  \/ Len(collected'[n]) > Len(collected[n])
  \/ ~panicked[n] /\ panicked'[n]
  \/ ringPc[n] = "none" /\ ringPc'[n] /= "none"
  \/ aggPc[n] = "none" /\ aggPc'[n] /= "none"

\* C33: once roster[0] has acknowledged the creation, a server handles a
\* client's row or gets a protocol instance of the survey only when it has
\* initialised its store and its scalar.
C33_InitialisedBeforeAnyRequest ==
  [][created[Root] =>
       \A n \in Roster : HandlesSurveyRequest(n) => created[n]]_vars


\* ---- results queries during which clients keep submitting rows, and a
\* further query after the first has returned.
LateNext ==
  \/ QueryNext
  \/ \E n \in Nodes, g \in Rands, k \in Rands : HandleSurveyResponseDataDuringQuery(n, g, k)
  \/ HandleSurveyResultsQueryLater

SpecLate == QueryInit /\ [][LateNext]_vars

\* The results query takes no further step: it has returned, or it waits
\* for a ring protocol that has come to rest without delivering.
QueryAtRest ==
  \/ qpc = "returned"
  \/ qpc \in {"ds", "ks", "ps"} /\ RingAtRest /\ ringFeedback = <<>>

\* The rows that reached roster[0] while the query numbered run was under way.
LateRowsOf(run) ==
  {e.row : e \in {l \in lateRows : l.run = run /\ submitted[l.row].srv = Root}}

\* The sum of the aggregates of the rows of S that have the grouping plaintext grp.
SumOfRows(S, grp) ==
  LET same == {i \in S : submitted[i].grp = grp}
  IN [c \in 1 .. 1 |-> SumOver(same, [i \in same |-> submitted[i].agg[c]])]

\* While a query is under way nothing leaves the collected stage and no row
\* joins the polled stage.
StaysCollected ==
  (qpc \in {"ds", "agg", "ks", "ps"} /\ queries' = queries) =>
    \A n \in Nodes :
      /\ IsPrefix(collected[n], collected'[n])
      /\ DOMAIN polled'[n] \subseteq DOMAIN polled[n]

\* Once the query after theirs has come to rest, it has returned and its
\* response holds the rows that arrived during the one before.
LateRowsDelivered ==
  (queries = 2 /\ QueryAtRest) =>
    /\ qpc = "returned"
    /\ \A i \in LateRowsOf(1) :
         \E j \in 1 .. Len(response) :
            /\ GroupRead(j) = submitted[i].grp
            /\ AggregateRead(j) = SumOfRows(LateRowsOf(1), submitted[i].grp)

\* C34: a row that arrives while a results query is under way stays in the
\* collected stage for the rest of that query, joined to none of its
\* labels, and is delivered by the next query.
C34_LateRowWaitsForNextQuery ==
  [][StaysCollected /\ LateRowsDelivered']_vars


\* The sum of the scalars of the first c servers of the ring order.
RandsOfFirst(c) ==
  LET S == {RingOrder[j] : j \in 1 .. c} IN SumOver(S, [n \in S |-> ringRand[n]])

RECURSIVE ResultAsIfEmpty(_)
ResultAsIfEmpty(n) ==
  LET kids == Ascending(Children(n))
      own == IF aggInput[n].nil THEN EmptyMap ELSE aggInput[n].m
  IN FoldAll(own, [i \in 1 .. Len(kids) |->
                      [from |-> kids[i], data |-> ResultAsIfEmpty(kids[i])]])

\* No message is in flight and no Dispatch can go on.
AggAtRest ==
  /\ aggStarted
  /\ aggNet = {}
  /\ \A n \in Nodes :
       /\ ~(aggPc[n] = "announce" /\ aggRefChan[n] > 0 /\ ~panicked[n])
       /\ ~(aggPc[n] = "ascend" /\ ~panicked[n] /\ (AwaitsChildren(n) => ChildDataReady(n)))

\* C36: a server other than the root whose DataReference is nil does not
\* fault: once its Dispatch has returned it has read the announcement, has
\* folded its children's maps starting from an empty map and has sent the
\* result to its parent once; the instance comes to rest only with the
\* root's result delivered, and that result is the one of the same
\* instance with an empty map in the place of every missing contribution.
C36_NilContributionCountsAsEmpty ==
  /\ \A n \in Nodes : ~panicked[n]
  /\ \A n \in Nodes \ {Root} :
       (aggInput[n].nil /\ aggPc[n] = "done") =>
         /\ aggAnnounced[n] = 1
         /\ aggSent[n] = 1
         /\ SeqToSet(aggFolded[n]) = Children(n)
         /\ aggDataRef[n] = Ref(ResultAsIfEmpty(n))
  /\ AggAtRest => Len(aggFeedback) = 1
  /\ aggFeedback /= <<>> => aggFeedback[1] = ResultAsIfEmpty(Root)

\* The root delivered although server 1, which has a child holding a group,
\* and a leaf had no contribution.
C36_Witness ==
  /\ Len(aggFeedback) = 1
  /\ aggInput[1].nil /\ aggPc[1] = "done" /\ aggFolded[1] /= <<>>
  /\ \E c \in Children(1) : ~aggInput[c].nil /\ DOMAIN aggInput[c].m /= {}
  /\ \E n \in Nodes \ {Root} : IsLeaf(n) /\ aggInput[n].nil /\ aggSent[n] = 1
  /\ DOMAIN aggFeedback[1] /= {}


\* ------------------------------------------------------------- CoSi
\* SendTo(tn, msg) to each server of a set, as the nr-th message of its kind
\* the sender sends.
CosiMessages(type, from, tos, nr) ==
  {[type |-> type, from |-> from, to |-> t, nr |-> nr] : t \in tos}

\* A node that goes on after the first buffered message.
EnoughMessages_First(n, temp) == Len(temp) >= 1

\* if len(pc.tempCommitment) < len(pc.Children()) { return nil }
EnoughMessages(n, temp) == ~(Len(temp) < Cardinality(Children(n)))

\* A CoSi handler leaves the root's message and callback, and the state of
\* the other services of the server, as they are.
CosiSetupUnchanged ==
  UNCHANGED <<cosiMessage, cosiCallback, queries, lateRows, rosterLen, roundVars, rerandomized,
              coordinator, aborted, created, creationNet, surveyPHKey, grpLen, submitted, qpc,
              qGroups, qAttrs, response, storeVars, aggVars, ringVars, panicked>>

\* Start -> StartAnnouncement: the root sends the announcement to its children.
StartAnnouncement ==
  /\ ~cosiStarted
  /\ cosiStarted' = TRUE
  /\ cosiNet' = cosiNet \cup CosiMessages("announce", Root, Children(Root), 1)
  /\ CosiSetupUnchanged
  /\ UNCHANGED <<tempCommitment, tempResponse, commitSent, responseSent, challengeStarted,
                 cosiErr, doneCalls, nodeDone>>

\* handleAnnouncement: a leaf goes to StartCommitment and sends its
\* commitment to its parent, another node sends the announcement on.
HandleAnnouncement(m) ==
  /\ m \in cosiNet /\ m.type = "announce"
  /\ LET n == m.to IN
     IF IsLeaf(n)
     THEN /\ commitSent' = [commitSent EXCEPT ![n] = @ + 1]
          /\ cosiNet' = (cosiNet \ {m})
                          \cup CosiMessages("commit", n, {Parent(n)}, commitSent[n] + 1)
     ELSE /\ cosiNet' = (cosiNet \ {m}) \cup CosiMessages("announce", n, Children(n), 1)
          /\ UNCHANGED commitSent
  /\ CosiSetupUnchanged
  /\ UNCHANGED <<cosiStarted, tempCommitment, tempResponse, responseSent, challengeStarted,
                 cosiErr, doneCalls, nodeDone>>

\* handleCommitment: the commitment is buffered; with enough of them the
\* root runs StartChallenge (an error without a message), another node
\* sends the aggregated commitment to its parent.
HandleCommitment(m) ==
  /\ m \in cosiNet /\ m.type = "commit"
  /\ LET n == m.to
         temp == Append(tempCommitment[n], m.from)
     IN /\ tempCommitment' = [tempCommitment EXCEPT ![n] = temp]
        /\ IF ~EnoughMessages(n, temp)
           THEN /\ cosiNet' = cosiNet \ {m}
                /\ UNCHANGED <<commitSent, challengeStarted, cosiErr>>
           ELSE IF IsRoot(n)
           THEN IF cosiMessage = "nil"
                THEN /\ cosiErr' = [cosiErr EXCEPT ![n] = "StartChallenge() called without message"]
                     /\ cosiNet' = cosiNet \ {m}
                     /\ UNCHANGED <<commitSent, challengeStarted>>
                ELSE /\ challengeStarted' = challengeStarted + 1
                     /\ cosiNet' = (cosiNet \ {m})
                                     \cup CosiMessages("challenge", n, Children(n), challengeStarted + 1)
                     /\ UNCHANGED <<commitSent, cosiErr>>
           ELSE /\ commitSent' = [commitSent EXCEPT ![n] = @ + 1]
                /\ cosiNet' = (cosiNet \ {m})
                                \cup CosiMessages("commit", n, {Parent(n)}, commitSent[n] + 1)
                /\ UNCHANGED <<challengeStarted, cosiErr>>
  /\ CosiSetupUnchanged
  /\ UNCHANGED <<cosiStarted, tempResponse, responseSent, doneCalls, nodeDone>>

\* handleChallenge: a leaf goes to StartResponse and sends its response to
\* its parent, another node sends the challenge on.
HandleChallenge(m) ==
  /\ m \in cosiNet /\ m.type = "challenge"
  /\ LET n == m.to IN
     IF IsLeaf(n)
     THEN /\ responseSent' = [responseSent EXCEPT ![n] = @ + 1]
          /\ cosiNet' = (cosiNet \ {m})
                          \cup CosiMessages("response", n, {Parent(n)}, responseSent[n] + 1)
     ELSE /\ cosiNet' = (cosiNet \ {m}) \cup CosiMessages("challenge", n, Children(n), m.nr)
          /\ UNCHANGED responseSent
  /\ CosiSetupUnchanged
  /\ UNCHANGED <<cosiStarted, tempCommitment, tempResponse, commitSent, challengeStarted,
                 cosiErr, doneCalls, nodeDone>>

\* handleResponse: the response is buffered; with enough of them the root
\* invokes DoneCallback, if there is one, and calls Done, another node sends
\* the aggregated response to its parent.
HandleResponse(m) ==
  /\ m \in cosiNet /\ m.type = "response"
  /\ LET n == m.to
         temp == Append(tempResponse[n], m.from)
     IN /\ tempResponse' = [tempResponse EXCEPT ![n] = temp]
        /\ IF ~EnoughMessages(n, temp)
           THEN /\ cosiNet' = cosiNet \ {m}
                /\ UNCHANGED <<responseSent, doneCalls, nodeDone>>
           ELSE IF ~IsRoot(n)
           THEN /\ responseSent' = [responseSent EXCEPT ![n] = @ + 1]
                /\ cosiNet' = (cosiNet \ {m})
                                \cup CosiMessages("response", n, {Parent(n)}, responseSent[n] + 1)
                /\ UNCHANGED <<doneCalls, nodeDone>>
           ELSE /\ doneCalls' = IF cosiCallback THEN doneCalls + 1 ELSE doneCalls
                /\ nodeDone' = nodeDone + 1
                /\ cosiNet' = cosiNet \ {m}
                /\ UNCHANGED responseSent
  /\ CosiSetupUnchanged
  /\ UNCHANGED <<cosiStarted, tempCommitment, commitSent, challengeStarted, cosiErr>>

CosiNext ==
  \/ StartAnnouncement
  \/ \E m \in cosiNet : HandleAnnouncement(m)
  \/ \E m \in cosiNet : HandleCommitment(m)
  \/ \E m \in cosiNet : HandleChallenge(m)
  \/ \E m \in cosiNet : HandleResponse(m)

\* ---- one CoSi round on its own, over the binary tree of a roster of 1 to
\* N servers: the root's instance has been created, with or without a
\* message to sign and a DoneCallback.
CosiInit ==
  /\ rosterLen \in 1 .. N
  /\ cosiMessage \in {"nil", "msg"}
  /\ cosiCallback \in BOOLEAN
  /\ cosiStarted = FALSE
  /\ cosiNet = {}
  /\ tempCommitment = [n \in Nodes |-> <<>>]
  /\ tempResponse = [n \in Nodes |-> <<>>]
  /\ commitSent = [n \in Nodes |-> 0]
  /\ responseSent = [n \in Nodes |-> 0]
  /\ challengeStarted = 0
  /\ cosiErr = [n \in Nodes |-> "nil"]
  /\ doneCalls = 0
  /\ nodeDone = 0
  /\ RoundsIdle
  /\ NothingEncrypted
  /\ coordinator = NoServer
  /\ aborted = FALSE
  /\ queries = 0
  /\ lateRows = {}
  /\ creationNet = {}
  /\ grpLen = 0
  /\ submitted = <<>>
  /\ qpc = "idle"
  /\ qGroups = EmptyMap
  /\ qAttrs = EmptyMap
  /\ response = <<>>
  /\ panicked = [n \in Nodes |-> FALSE]
  /\ StoreEmpty
  /\ AggIdle
  /\ RingIdle
  /\ created = [n \in Nodes |-> FALSE]
  /\ surveyPHKey = [n \in Nodes |-> 0]
  /\ locallyAggregated = [n \in Nodes |-> NilRef]

SpecCosi == CosiInit /\ [][CosiNext]_vars

\* The children a node has buffered a commitment (a response) of.
Senders(temp) == {temp[i] : i \in 1 .. Len(temp)}

\* The round is at rest: it has been started and no message is in flight.
CosiAtRest == cosiStarted /\ cosiNet = {}

\* C37: in the CoSi protocol a non-leaf node sends its aggregated commitment
\* (its aggregated response) to its parent only after it has received one
\* from every one of its children, the root starts the challenge only after
\* the commitments of all its children have been aggregated, and each node
\* sends upward exactly once per phase.
C37_UpwardOnlyAfterAllChildren ==
  /\ \A n \in Roster :
       /\ (~IsLeaf(n) /\ commitSent[n] >= 1) => Children(n) \subseteq Senders(tempCommitment[n])
       /\ (~IsLeaf(n) /\ responseSent[n] >= 1) => Children(n) \subseteq Senders(tempResponse[n])
       /\ commitSent[n] <= 1
       /\ responseSent[n] <= 1
       /\ IsRoot(n) => commitSent[n] = 0 /\ responseSent[n] = 0
  /\ challengeStarted >= 1 => Children(Root) \subseteq Senders(tempCommitment[Root])
  /\ challengeStarted <= 1
  /\ (CosiAtRest /\ cosiMessage /= "nil") =>
       \A n \in Roster \ {Root} : commitSent[n] = 1 /\ responseSent[n] = 1

\* A node with a child, below a root with two children, has sent its
\* aggregated commitment and its aggregated response upward.
C37_Witness ==
  \E n \in Roster \ {Root} :
    /\ Cardinality(Children(n)) >= 1
    /\ responseSent[n] = 1
    /\ commitSent[n] = 1
    /\ Cardinality(Children(Root)) = 2
    /\ challengeStarted = 1


\* C38: a CoSi round started at the root over any tree of one or more nodes
\* completes under reliable delivery: once nothing is left to deliver, the
\* root has invoked DoneCallback exactly once and called Done.
C38_RoundCompletes ==
  /\ doneCalls <= 1
  /\ nodeDone <= 1
  /\ (CosiAtRest /\ cosiMessage = "msg" /\ cosiCallback) => doneCalls = 1 /\ nodeDone = 1


\* ------------------------------------------------------------- RoundSetup
\* const ( EmptyRT RoundType = iota; ViewChangeRT; AddRT; ...; SigningRT )
EmptyRT == 0
ViewChangeRT == 1
AddRT == 2
SigningRT == 6

\* am.Vote: none, a view-change vote (with its Vcv), or an add vote (no Vcv).
Votes ==
  {NoVote,
   [Type |-> ViewChangeRT, Vcv |-> TRUE, nil |-> FALSE],
   [Type |-> AddRT, Vcv |-> FALSE, nil |-> FALSE]}
Announcements == [RoundNbr : 0 .. MaxRound, Vote : Votes]

\* max(a, b)
Max(a, b) == IF a >= b THEN a ELSE b

\* A check that lets the round last seen through again.
PastRound_Strict(roundNbr, last) == roundNbr < last

\* if roundNbr <= sn.LastSeenRound
PastRound(roundNbr, last) == roundNbr <= last

\* if sn.ChangingView && am.Vote != nil && am.Vote.Vcv == nil
RefusedWhileChangingView(am) == ChangingView /\ ~am.Vote.nil /\ ~am.Vote.Vcv

\* make space for round type: append(sn.RoundTypes, make([]RoundType,
\* max(len(sn.RoundTypes), roundNbr + 1))...)
GrowRoundTypes(types, roundNbr) ==
  IF Len(types) <= roundNbr
  THEN types \o [i \in 1 .. Max(Len(types), roundNbr + 1) |-> EmptyRT]
  ELSE types

\* sn.RoundTypes[roundNbr] = SigningRT, or RoundType(am.Vote.Type)
TypeOfRound(am) == IF am.Vote.nil THEN SigningRT ELSE am.Vote.Type

\* A RoundSetup step leaves the state of the services of the server alone.
RoundFrame ==
  UNCHANGED <<ChangingView, snIsRoot, queries, lateRows, rosterLen, cosiVars, rerandomized,
              coordinator, aborted, created, creationNet, surveyPHKey, grpLen, submitted, qpc,
              qGroups, qAttrs, response, storeVars, aggVars, ringVars, panicked>>

\* RoundSetup(sn, view, am) is called.
RoundSetupCall(c, am) ==
  /\ ~mapFault
  /\ callPc[c] = "idle"
  /\ callAm' = [callAm EXCEPT ![c] = am]
  /\ callPc' = [callPc EXCEPT ![c] = "viewmu"]
  /\ RoundFrame
  /\ UNCHANGED <<LastSeenRound, RoundTypes, Rounds, RoundsAsRoot, Round, callResult, mapFault>>

\* Under viewmu: a vote without Vcv is refused while the view changes.
ViewCheck(c) ==
  /\ ~mapFault
  /\ callPc[c] = "viewmu"
  /\ IF RefusedWhileChangingView(callAm[c])
     THEN /\ callResult' = [callResult EXCEPT ![c] = "ChangingViewError"]
          /\ callPc' = [callPc EXCEPT ![c] = "returned"]
     ELSE /\ callPc' = [callPc EXCEPT ![c] = "roundmu"]
          /\ UNCHANGED callResult
  /\ RoundFrame
  /\ UNCHANGED <<LastSeenRound, RoundTypes, Rounds, RoundsAsRoot, Round, callAm, mapFault>>

\* Under roundmu: a past round is refused; otherwise the type of the round
\* is recorded, and the lock is released.
RoundCheck(c) ==
  /\ ~mapFault
  /\ callPc[c] = "roundmu"
  /\ LET roundNbr == callAm[c].RoundNbr IN
     IF PastRound(roundNbr, LastSeenRound)
     THEN /\ callResult' = [callResult EXCEPT ![c] = "ErrPastRound"]
          /\ callPc' = [callPc EXCEPT ![c] = "returned"]
          /\ UNCHANGED RoundTypes
     ELSE /\ RoundTypes' = [GrowRoundTypes(RoundTypes, roundNbr)
                              EXCEPT ![roundNbr + 1] = TypeOfRound(callAm[c])]
          /\ callPc' = [callPc EXCEPT ![c] = "install"]
          /\ UNCHANGED callResult
  /\ RoundFrame
  /\ UNCHANGED <<LastSeenRound, Rounds, RoundsAsRoot, Round, callAm, mapFault>>

\* sn.Rounds[roundNbr] = round, with no lock held.
InstallRound(c) ==
  /\ ~mapFault
  /\ callPc[c] = "install"
  /\ LET roundNbr == callAm[c].RoundNbr
         round == [Vote |-> callAm[c].Vote, call |-> c]
     IN Rounds' = [r \in DOMAIN Rounds \cup {roundNbr} |->
                     IF r = roundNbr THEN round ELSE Rounds[r]]
  /\ callPc' = [callPc EXCEPT ![c] = "seen"]
  /\ RoundFrame
  /\ UNCHANGED <<LastSeenRound, RoundTypes, RoundsAsRoot, Round, callAm, callResult, mapFault>>

\* Two calls write the map sn.Rounds at once: the runtime may end the process
\* ("concurrent map writes"); otherwise the writes land in some order.
ConcurrentMapWrites(c, d) ==
  /\ ~mapFault
  /\ c /= d
  /\ callPc[c] = "install"
  /\ callPc[d] = "install"
  /\ mapFault' = TRUE
  /\ RoundFrame
  /\ UNCHANGED <<LastSeenRound, RoundTypes, Rounds, RoundsAsRoot, Round, callPc, callAm,
                 callResult>>

\* Under roundmu again: sn.LastSeenRound = max(sn.LastSeenRound, roundNbr).
UpdateLastSeen(c) ==
  /\ ~mapFault
  /\ callPc[c] = "seen"
  /\ LastSeenRound' = Max(LastSeenRound, callAm[c].RoundNbr)
  /\ IF snIsRoot
     THEN /\ callPc' = [callPc EXCEPT ![c] = "root"]
          /\ UNCHANGED callResult
     ELSE /\ callPc' = [callPc EXCEPT ![c] = "returned"]
          /\ callResult' = [callResult EXCEPT ![c] = "nil"]
  /\ RoundFrame
  /\ UNCHANGED <<RoundTypes, Rounds, RoundsAsRoot, Round, callAm, mapFault>>

\* if sn.IsRoot(view): sn.RoundsAsRoot += 1; sn.Round = roundNbr, with no
\* lock held: an increment made while another call is at the same place may
\* be lost.
RootBookkeeping(c) ==
  /\ ~mapFault
  /\ callPc[c] = "root"
  /\ \E lost \in BOOLEAN :
       /\ lost => \E d \in Calls \ {c} : callPc[d] = "root"
       /\ RoundsAsRoot' = IF lost THEN RoundsAsRoot ELSE RoundsAsRoot + 1
  /\ Round' = callAm[c].RoundNbr
  /\ callPc' = [callPc EXCEPT ![c] = "returned"]
  /\ callResult' = [callResult EXCEPT ![c] = "nil"]
  /\ RoundFrame
  /\ UNCHANGED <<LastSeenRound, RoundTypes, Rounds, callAm, mapFault>>

RoundsNext ==
  \/ \E c \in Calls, am \in Announcements : RoundSetupCall(c, am)
  \/ \E c \in Calls : ViewCheck(c)
  \/ \E c \in Calls : RoundCheck(c)
  \/ \E c \in Calls : InstallRound(c)
  \/ \E c, d \in Calls : ConcurrentMapWrites(c, d)
  \/ \E c \in Calls : UpdateLastSeen(c)
  \/ \E c \in Calls : RootBookkeeping(c)

\* ---- the RoundSetup calls of one node on their own: no round has been set
\* up yet; the node is the root of the view or not, and changes view or not.
RoundsInit ==
  /\ rosterLen = N
  /\ CosiIdle
  /\ LastSeenRound = 0
  /\ RoundTypes = <<>>
  /\ Rounds = <<>>
  /\ ChangingView \in BOOLEAN
  /\ snIsRoot \in BOOLEAN
  /\ RoundsAsRoot = 0
  /\ Round = 0
  /\ callPc = [c \in Calls |-> "idle"]
  /\ callAm = [c \in Calls |-> NoAnnouncement]
  /\ callResult = [c \in Calls |-> "none"]
  /\ mapFault = FALSE
  /\ NothingEncrypted
  /\ coordinator = NoServer
  /\ aborted = FALSE
  /\ queries = 0
  /\ lateRows = {}
  /\ creationNet = {}
  /\ grpLen = 0
  /\ submitted = <<>>
  /\ qpc = "idle"
  /\ qGroups = EmptyMap
  /\ qAttrs = EmptyMap
  /\ response = <<>>
  /\ panicked = [n \in Nodes |-> FALSE]
  /\ StoreEmpty
  /\ AggIdle
  /\ RingIdle
  /\ created = [n \in Nodes |-> FALSE]
  /\ surveyPHKey = [n \in Nodes |-> 0]
  /\ locallyAggregated = [n \in Nodes |-> NilRef]

SpecRounds == RoundsInit /\ [][RoundsNext]_vars

\* The call has not passed the past-round check, and announces a round that
\* is not greater than LastSeenRound.
AnnouncesPastRound(c) ==
  /\ callPc[c] \in {"viewmu", "roundmu"}
  /\ callAm[c].RoundNbr <= LastSeenRound

\* The call returns in this step.
Returns(c) == callPc[c] /= "returned" /\ callPc'[c] = "returned"

\* LastSeenRound never decreases and, after a successful call, is at least
\* the announced round number.
LastSeenRoundGrows ==
  /\ LastSeenRound' >= LastSeenRound
  /\ \A c \in Calls :
       (Returns(c) /\ callResult'[c] = "nil") => LastSeenRound' >= callAm[c].RoundNbr

\* A call announcing a past round sets up nothing, and returns one of the
\* given errors with Rounds, RoundTypes and LastSeenRound unchanged.
RejectsPastRound(c, errors) ==
  AnnouncesPastRound(c) =>
    /\ callPc'[c] \in {"viewmu", "roundmu", "returned"}
    /\ callPc[c] = "roundmu" => callPc'[c] /= "viewmu"
    /\ Returns(c) =>
         /\ callResult'[c] \in errors
         /\ UNCHANGED <<Rounds, RoundTypes, LastSeenRound>>

\* C39 (as stated): RoundSetup rejects every announcement whose round number
\* is not greater than LastSeenRound with ErrPastRound, leaving Rounds,
\* RoundTypes and LastSeenRound unchanged; LastSeenRound never decreases
\* and, after a successful call, is at least the announced round number.
C39_PastRoundRejectedWithErrPastRound ==
  [][(\A c \in Calls : RejectsPastRound(c, {"ErrPastRound"})) /\ LastSeenRoundGrows]_vars

\* C39 (amended): RoundSetup rejects every announcement whose round number
\* is not greater than LastSeenRound, with ChangingViewError when the view
\* is changing and the announcement carries a vote without Vcv and with
\* ErrPastRound otherwise, leaving Rounds, RoundTypes and LastSeenRound
\* unchanged; LastSeenRound never decreases and, after a successful call,
\* is at least the announced round number.
C39_PastRoundRejected ==
  [][/\ \A c \in Calls :
          /\ RejectsPastRound(c, {"ErrPastRound", "ChangingViewError"})
          /\ (AnnouncesPastRound(c) /\ Returns(c)) =>
               (callResult'[c] = "ChangingViewError"
                  <=> (ChangingView /\ ~callAm[c].Vote.nil /\ ~callAm[c].Vote.Vcv))
     /\ LastSeenRoundGrows]_vars

\* One call has set up a round and another, announcing a round that is not
\* greater, has been rejected.
C39_Witness ==
  \E c, d \in Calls :
    /\ callResult[c] = "nil"
    /\ callResult[d] \in {"ErrPastRound", "ChangingViewError"}
    /\ callAm[d].RoundNbr <= callAm[c].RoundNbr
    /\ LastSeenRound >= callAm[c].RoundNbr
    /\ Rounds[callAm[c].RoundNbr].call = c

\* The call has passed the past-round check.
PassedCheck(c) ==
  \/ callPc[c] \in {"install", "seen", "root"}
  \/ callPc[c] = "returned" /\ callResult[c] = "nil"

\* C40: for any round number, at most one of several concurrent RoundSetup
\* calls announcing that number passes the past-round check, installs a
\* round in Rounds and succeeds.
C40_OneCallPerRoundNumber ==
  \A c, d \in Calls :
    (c /= d /\ callAm[c].RoundNbr = callAm[d].RoundNbr) => ~(PassedCheck(c) /\ PassedCheck(d))

============================================================================
